---- MODULE Spec2Model ----
(***************************************************************************)
(* Reconciliation core of ten-s-lineups: the match-UTR locator             *)
(* (analytics/utr_service.py), its identity resolver, the per-player       *)
(* reconciliation run and the loaders of data_access.py.                   *)
(*                                                                         *)
(* Python values are modelled as follows.  Strings that the code only      *)
(* compares are TLA+ strings; strings the code indexes or concatenates     *)
(* (names) are sequences of one-character strings.  A timestamp            *)
(* 'YYYY-MM-DDTHH:..' is a record [y, m, d, hh]; the all-zero record is a  *)
(* value that cannot be parsed (None or a malformed string).  An exception *)
(* raised inside a try block is the outcome Raised of the block's body.    *)
(***************************************************************************)
EXTENDS Integers, Sequences, FiniteSets, TLC

VARIABLES
    stats,       \* data/raw/player_<id>_<type>_stats.json, per player and type
    profile,     \* data/processed/player_<id>_profile.parquet, per player
    results_df,  \* data/processed/player_<id>_results.parquet, per player
    now,         \* the processing date read by datetime.now(): [y, m]
    op,          \* the operation that has returned, "idle" between calls
    args,        \* its arguments, and for a locate the processing date it ran at
    ret,         \* the value it returned
    calls,       \* the calls it made to its collaborators, in order
    teams,       \* table teams of data/db/teams.db, rows in insertion order
    team_players,\* table team_players of data/db/teams.db, rows in insertion order
    disk,        \* what the data saver leaves below data/: directories, files written
                 \* whole, files left torn, and the ids of table players
    matches,     \* table matches of data/db/players.db, rows in insertion order
    authenticated \* UTRAPI.authenticated, the session flag of the API client

vars == <<stats, profile, results_df, now, op, args, ret, calls,
          teams, team_players, disk, matches, authenticated>>

\* the stored feeds, which no operation of the core writes
feeds == <<stats, profile, results_df, now>>

\* the stores written by the team manager, the data saver and the match loader,
\* and the flag written by the API client
stores == <<teams, team_players, disk, matches, authenticated>>

----------------------------------------------------------------------------
(* Bounds of the model *)

MaxMonths == 2

MaxPairs == 3

MaxNames == 5

MaxRows == 2

MaxRecords == 3

MaxRatings == 3

MaxResults == 2
\* draws of an event of a results feed
MaxDraws == 2
\* events of a results feed
MaxEvents == 2
\* hits of a search
MaxHits == 3
\* lines typed at the prompt of a search
MaxPrompts == 2

----------------------------------------------------------------------------
(* Python values *)

None == "None"
Raised == "Raised"
Continue == "Continue"

PlayerIds == {"p1", "p2"}
MatchTypes == {"singles", "doubles"}

Date(y, m, d) == [y |-> y, m |-> m, d |-> d]

Stamp(y, m, d, hh) == [y |-> y, m |-> m, d |-> d, hh |-> hh]

BadStamp == Stamp(0, 0, 0, 0)

IsLeap(y) == (y % 4 = 0 /\ y % 100 # 0) \/ y % 400 = 0

DaysInMonth(y, m) ==
    CASE m \in {1, 3, 5, 7, 8, 10, 12} -> 31
      [] m \in {4, 6, 9, 11} -> 30
      [] m = 2 -> IF IsLeap(y) THEN 29 ELSE 28
      [] OTHER -> 0

\* datetime.strptime(s, "%Y-%m-%d") succeeds
ValidDate(dt) == dt.y >= 1 /\ dt.m \in 1..12 /\ dt.d \in 1..DaysInMonth(dt.y, dt.m)

\* resultDate.split('T')[0] parsed by strptime(.., "%Y-%m-%d").date(): the time is dropped
DatePart(ts) == Date(ts.y, ts.m, ts.d)

WellFormed(ts) == ValidDate(DatePart(ts))

----------------------------------------------------------------------------
(* The stored feeds *)

NoFile == [exists |-> FALSE, hasChart |-> FALSE, hasMonths |-> FALSE, months |-> <<>>]

NoChart == [exists |-> TRUE, hasChart |-> FALSE, hasMonths |-> FALSE, months |-> <<>>]

NoMonths == [exists |-> TRUE, hasChart |-> TRUE, hasMonths |-> FALSE, months |-> <<>>]

Chart(months) == [exists |-> TRUE, hasChart |-> TRUE, hasMonths |-> TRUE, months |-> months]

\* a stats file with a rating trend chart that has months
Usable(st) == st.exists /\ st.hasChart /\ st.hasMonths /\ st.months # <<>>

Bucket(hasRatings, ratings, hasResults, results) ==
    [hasRatings |-> hasRatings, ratings |-> ratings,
     hasResults |-> hasResults, results |-> results]

Entry(resultDate, details) == [resultDate |-> resultDate, details |-> details]

\* the loader falling back on the file of the other format
LoadPlayerStatsEitherFormat(player_id, match_type) ==
    IF Usable(stats[player_id][match_type])
    THEN stats[player_id][match_type]
    ELSE stats[player_id][IF match_type = "singles" THEN "doubles" ELSE "singles"]

\* json.load of the stats file named by player id and match type; None when it fails
LoadPlayerStats(player_id, match_type) == stats[player_id][match_type]

----------------------------------------------------------------------------
(* get_match_utr, singles branch *)

\* the scan with the bucket's last rating returned in place of its first
RECURSIVE ScanSinglesResultsLastRating(_, _, _)
ScanSinglesResultsLastRating(month, i, match_date) ==
    IF i > Len(month.results) THEN Continue
    ELSE IF ~WellFormed(month.results[i].resultDate) THEN Raised
    ELSE IF DatePart(month.results[i].resultDate) = match_date
         THEN IF ~month.hasRatings THEN Raised
              ELSE IF month.ratings # <<>> THEN month.ratings[Len(month.ratings)]
              ELSE ScanSinglesResultsLastRating(month, i + 1, match_date)
    ELSE ScanSinglesResultsLastRating(month, i + 1, match_date)

RECURSIVE ScanSinglesResults(_, _, _)
ScanSinglesResults(month, i, match_date) ==
    IF i > Len(month.results) THEN Continue
    ELSE IF ~WellFormed(month.results[i].resultDate) THEN Raised
    ELSE IF DatePart(month.results[i].resultDate) = match_date
         THEN IF ~month.hasRatings THEN Raised
              ELSE IF month.ratings # <<>> THEN month.ratings[1]
              ELSE ScanSinglesResults(month, i + 1, match_date)
    ELSE ScanSinglesResults(month, i + 1, match_date)

RECURSIVE ScanSinglesMonths(_, _, _)
ScanSinglesMonths(months, j, match_date) ==
    IF j > Len(months) THEN None
    ELSE LET r == IF months[j].hasResults /\ months[j].results # <<>>
                  THEN ScanSinglesResults(months[j], 1, match_date)
                  ELSE Continue
         IN  IF r = Continue THEN ScanSinglesMonths(months, j + 1, match_date) ELSE r

\* the singles branch with the year of the match date inferred from the processing
\* date, as the doubles branch infers the year of a description
GetMatchUtrSinglesInferredYear(player_id, resultDate) ==
    LET st == LoadPlayerStats(player_id, "singles")
    IN  IF ~st.exists THEN None
        ELSE IF ~st.hasChart \/ ~st.hasMonths \/ st.months = <<>> THEN None
        ELSE IF ~WellFormed(resultDate) THEN Raised
        ELSE ScanSinglesMonths(st.months, 1,
                 Date(IF resultDate.m > now.m THEN now.y - 1 ELSE now.y,
                      resultDate.m, resultDate.d))

GetMatchUtrSingles(player_id, resultDate) ==
    LET st == LoadPlayerStats(player_id, "singles")
    IN  IF ~st.exists THEN None
        ELSE IF ~st.hasChart \/ ~st.hasMonths \/ st.months = <<>> THEN None
        ELSE IF ~WellFormed(resultDate) THEN Raised
        ELSE ScanSinglesMonths(st.months, 1, DatePart(resultDate))

----------------------------------------------------------------------------
(* player_id_lookup *)

NoProfile == [exists |-> FALSE, hasNames |-> FALSE, firstName |-> <<>>, lastName |-> <<>>]

\* a profile table without the firstName/lastName columns (or without rows)
NamelessProfile == [exists |-> TRUE, hasNames |-> FALSE, firstName |-> <<>>, lastName |-> <<>>]

Profile(firstName, lastName) ==
    [exists |-> TRUE, hasNames |-> TRUE, firstName |-> firstName, lastName |-> lastName]

\* pd.read_parquet of the profile file named by player id; None when it fails
LoadPlayerProfile(player_id) == profile[player_id]

\* f"{first_name[0]}.{last_name}"
ShortName(first_name, last_name) == <<first_name[1], ".">> \o last_name

Lower(c) ==
    CASE c = "J" -> "j"
      [] c = "S" -> "s"
      [] c = "A" -> "a"
      [] OTHER -> c

LowerAll(str) == [k \in DOMAIN str |-> Lower(str[k])]

\* the lookup with the two names compared without regard to case
PlayerIdLookupBodyIgnoreCase(player_id, player_name) ==
    LET player_profile == LoadPlayerProfile(player_id)
    IN  IF ~player_profile.exists THEN None
        ELSE IF ~player_profile.hasNames THEN Raised
        ELSE IF player_profile.firstName = <<>> THEN Raised
        ELSE IF LowerAll(player_name)
                    = LowerAll(ShortName(player_profile.firstName, player_profile.lastName))
             THEN player_id
        ELSE None

PlayerIdLookupBody(player_id, player_name) ==
    LET player_profile == LoadPlayerProfile(player_id)
    IN  IF ~player_profile.exists THEN None
        ELSE IF ~player_profile.hasNames THEN Raised
        ELSE IF player_profile.firstName = <<>> THEN Raised
        ELSE IF player_name = ShortName(player_profile.firstName, player_profile.lastName)
             THEN player_id
        ELSE None

PlayerIdLookup(player_id, player_name) ==
    LET r == PlayerIdLookupBody(player_id, player_name)
    IN  IF r = Raised THEN None ELSE r

----------------------------------------------------------------------------
(* The doubles description and the three pattern extractions *)

Tok(t, m, d, a, b, n) == [t |-> t, m |-> m, d |-> d, a |-> a, b |-> b, n |-> n]

\* a weekday abbreviation: Sun .. Sat
Dow == Tok("dow", 0, 0, "", "", <<>>)

\* a three-letter word; m is its month number, 0 when it is no month abbreviation
Mon(m) == Tok("mon", m, 0, "", "", <<>>)

\* one or two digits
Day(d) == Tok("day", 0, d, "", "", <<>>)

\* "(a/b)"
Pair(a, b) == Tok("pair", 0, 0, a, b, <<>>)

\* "I.Surname"
Name(n) == Tok("name", 0, 0, "", "", n)

\* any other text
Word == Tok("word", 0, 0, "", "", <<>>)

\* re.search(r"^(Sun|..|Sat)\s([A-Za-z]{3})\s(\d{1,2})", details)
DateMatch(details) ==
    /\ Len(details) >= 3
    /\ details[1].t = "dow"
    /\ details[2].t = "mon"
    /\ details[3].t = "day"

IsPair(tk) == tk.t = "pair"

IsName(tk) == tk.t = "name"

\* re.findall(r"\((\d+\.\d+)/(\d+\.\d+)\)", details)
UtrMatches(details) ==
    LET toks == SelectSeq(details, IsPair)
    IN  [k \in 1..Len(toks) |-> <<toks[k].a, toks[k].b>>]

\* re.findall(r"([A-Z]\.[A-Za-z]+)", details)
NameMatches(details) ==
    LET toks == SelectSeq(details, IsName)
    IN  [k \in 1..Len(toks) |-> toks[k].n]

\* the year inference with the processing month itself counted as later
InferYearInclusive(month_num) == IF month_num >= now.m THEN now.y - 1 ELSE now.y

\* year = now().year, one less when the parsed month is later than now().month
InferYear(month_num) == IF month_num > now.m THEN now.y - 1 ELSE now.y

----------------------------------------------------------------------------
(* get_match_utr, doubles branch *)

\* the attribution with team B's two ratings exchanged
AttributeTeamBSwapped(player_id, name_matches, utr_matches) ==
    IF player_id \in {PlayerIdLookup(player_id, name_matches[1]),
                      PlayerIdLookup(player_id, name_matches[2])}
    THEN IF player_id = PlayerIdLookup(player_id, name_matches[1])
         THEN utr_matches[1][1]
         ELSE utr_matches[1][2]
    ELSE IF player_id \in {PlayerIdLookup(player_id, name_matches[3]),
                           PlayerIdLookup(player_id, name_matches[4])}
    THEN IF player_id = PlayerIdLookup(player_id, name_matches[3])
         THEN utr_matches[2][2]
         ELSE utr_matches[2][1]
    ELSE None

\* the attribution that looks at team B before team A
AttributeTeamBFirst(player_id, name_matches, utr_matches) ==
    IF player_id \in {PlayerIdLookup(player_id, name_matches[3]),
                      PlayerIdLookup(player_id, name_matches[4])}
    THEN IF player_id = PlayerIdLookup(player_id, name_matches[3])
         THEN utr_matches[2][1]
         ELSE utr_matches[2][2]
    ELSE IF player_id \in {PlayerIdLookup(player_id, name_matches[1]),
                           PlayerIdLookup(player_id, name_matches[2])}
    THEN IF player_id = PlayerIdLookup(player_id, name_matches[1])
         THEN utr_matches[1][1]
         ELSE utr_matches[1][2]
    ELSE None

Attribute(player_id, name_matches, utr_matches) ==
    IF player_id \in {PlayerIdLookup(player_id, name_matches[1]),
                      PlayerIdLookup(player_id, name_matches[2])}
    THEN IF player_id = PlayerIdLookup(player_id, name_matches[1])
         THEN utr_matches[1][1]
         ELSE utr_matches[1][2]
    ELSE IF player_id \in {PlayerIdLookup(player_id, name_matches[3]),
                           PlayerIdLookup(player_id, name_matches[4])}
    THEN IF player_id = PlayerIdLookup(player_id, name_matches[3])
         THEN utr_matches[2][1]
         ELSE utr_matches[2][2]
    ELSE None

\* one pass of the inner loop body: a rating or None (return), Raised, or Continue
DoublesEntry(player_id, details, match_date) ==
    LET utr_matches == UtrMatches(details)
        name_matches == NameMatches(details)
    IN  IF DateMatch(details) /\ utr_matches # <<>> /\ name_matches # <<>>
        THEN LET month_num == details[2].m
                 row_date == Date(InferYear(month_num), month_num, details[3].d)
             IN  IF month_num \notin 1..12 THEN Raised
                 ELSE IF ~ValidDate(row_date) THEN Raised
                 ELSE IF row_date = match_date
                      THEN IF Len(name_matches) < 4 \/ Len(utr_matches) < 2 THEN Raised
                           ELSE Attribute(player_id, name_matches, utr_matches)
                 ELSE Continue
        ELSE None

RECURSIVE ScanDoublesResults(_, _, _, _)
ScanDoublesResults(player_id, month, i, match_date) ==
    IF i > Len(month.results) THEN Continue
    ELSE LET r == DoublesEntry(player_id, month.results[i].details, match_date)
         IN  IF r = Continue
             THEN ScanDoublesResults(player_id, month, i + 1, match_date)
             ELSE r

RECURSIVE ScanDoublesMonths(_, _, _, _)
ScanDoublesMonths(player_id, months, j, match_date) ==
    IF j > Len(months) THEN None
    ELSE LET r == IF months[j].hasResults /\ months[j].results # <<>>
                  THEN ScanDoublesResults(player_id, months[j], 1, match_date)
                  ELSE Continue
         IN  IF r = Continue
             THEN ScanDoublesMonths(player_id, months, j + 1, match_date)
             ELSE r

GetMatchUtrDoubles(player_id, resultDate, match_type) ==
    LET st == LoadPlayerStats(player_id, match_type)
    IN  IF ~st.exists THEN None
        ELSE IF ~st.hasChart \/ ~st.hasMonths \/ st.months = <<>> THEN None
        ELSE IF ~WellFormed(resultDate) THEN Raised
        ELSE ScanDoublesMonths(player_id, st.months, 1, DatePart(resultDate))

\* the whole function: any exception of either branch is caught and None returned
GetMatchUtr(player_id, resultDate, match_type) ==
    LET r == IF match_type = "singles"
             THEN GetMatchUtrSingles(player_id, resultDate)
             ELSE GetMatchUtrDoubles(player_id, resultDate, match_type)
    IN  IF r = Raised THEN None ELSE r

----------------------------------------------------------------------------
(* get_player_utr_scores *)

\* load_player_results returns None
NoResults == [exists |-> FALSE, raises |-> FALSE, rows |-> <<>>]

\* load_player_results returns a table
Table(rows) == [exists |-> TRUE, raises |-> FALSE, rows |-> rows]

\* load_player_results raises
LoadRaises == [exists |-> FALSE, raises |-> TRUE, rows |-> <<>>]

\* the players column: the JSON text of a record that has, or lacks, the key winner2
Players(hasWinner2, winner2) == [hasWinner2 |-> hasWinner2, winner2 |-> winner2]

Row(event_id, players, date, event_name) ==
    [event_id |-> event_id, players |-> players, date |-> date, event_name |-> event_name]

\* the outcome of load_player_results(player_id): data_access.load_player_results
\* gives a table, or None whenever reading fails; a loader put in its place may raise
LoadPlayerResults(player_id) == results_df[player_id]

CallOf(player_id, row, match_type) ==
    [player_id |-> player_id, resultDate |-> row.date,
     details |-> row.event_name, match_type |-> match_type]

\* match_data["winner2"] is None
MatchTypeOf(players) == IF players.winner2 = None THEN "singles" ELSE "doubles"

Returned(kind, match_utrs, made) == [kind |-> kind, match_utrs |-> match_utrs, made |-> made]

\* an assignment that leaves an entry the mapping already has
StoreFirstWins(match_utrs, match_id, utr, date) ==
    match_utrs @@ (match_id :> [utr |-> utr, date |-> date])

\* match_utrs[match_id] = {"utr": utr, "date": date}
Store(match_utrs, match_id, utr, date) ==
    (match_id :> [utr |-> utr, date |-> date]) @@ match_utrs

RECURSIVE ScoresLoop(_, _, _, _, _)
ScoresLoop(player_id, rows, i, match_utrs, made) ==
    IF i > Len(rows) THEN Returned("dict", match_utrs, made)
    ELSE IF ~rows[i].players.hasWinner2 THEN Returned("None", <<>>, made)
    ELSE LET match_type == MatchTypeOf(rows[i].players)
             utr == GetMatchUtr(player_id, rows[i].date, match_type)
             made1 == Append(made, CallOf(player_id, rows[i], match_type))
         IN  IF utr # None
             THEN ScoresLoop(player_id, rows, i + 1,
                             Store(match_utrs, rows[i].event_id, utr, rows[i].date), made1)
             ELSE ScoresLoop(player_id, rows, i + 1, match_utrs, made1)

\* as GetPlayerUtrScores, but a load that returns None is reported as a failure
GetPlayerUtrScoresNoneOnMissing(player_id) ==
    LET df == LoadPlayerResults(player_id)
    IN  IF df.raises \/ ~df.exists THEN Returned("None", <<>>, <<>>)
        ELSE IF df.rows = <<>> THEN Returned("dict", <<>>, <<>>)
        ELSE ScoresLoop(player_id, df.rows, 1, <<>>, <<>>)

GetPlayerUtrScores(player_id) ==
    LET df == LoadPlayerResults(player_id)
    IN  IF df.raises THEN Returned("None", <<>>, <<>>)
        ELSE IF ~df.exists \/ df.rows = <<>> THEN Returned("dict", <<>>, <<>>)
        ELSE ScoresLoop(player_id, df.rows, 1, <<>>, <<>>)

----------------------------------------------------------------------------
(* load_player_match_stats: the results of a file ingested into table matches *)

\* a field of the feed that is JSON null where the code goes on to read inside it
Null == "null"

\* a key the feed does not carry
Absent == "absent"

\* ", ".join(score_parts): the sets in key order, each <<winner games, loser games>>
\* with 0 for a count the set does not carry; a null score or a null set raises
ScoreParts(score) ==
    IF score.kind = Absent THEN [kind |-> "ok", parts |-> <<>>]
    ELSE IF score.kind = Null THEN [kind |-> Raised, parts |-> <<>>]
    ELSE IF \E k \in DOMAIN score.sets : score.sets[k] = <<>>
         THEN [kind |-> Raised, parts |-> <<>>]
    ELSE [kind |-> "ok", parts |-> score.sets]

\* players.get(key, {}).get('id')
IdOf(entry) == IF entry = Absent THEN None ELSE entry

MatchRow(result, match_format, parts, match_result, p1, p2, o1, o2) ==
    [match_id |-> result.id, match_date |-> result.date, match_format |-> match_format,
      score |-> parts, result |-> match_result,
      player1_id |-> p1, player2_id |-> p2, opponent1_id |-> o1, opponent2_id |-> o2]

\* the partner: the first id of the team's set that is not the player's
PartnerIn(team, player_id) ==
    IF team \ {player_id} = {} THEN None ELSE CHOOSE x \in team \ {player_id} : TRUE

\* the opponents <<opponent1_id, opponent2_id>> the walk over the other team's set
\* can give: the set is walked in either order
OpponentsIn(team) ==
    IF team \ {None} = {} THEN {<<None, None>>}
    ELSE IF Cardinality(team \ {None}) = 1
         THEN {<<CHOOSE x \in team \ {None} : TRUE, None>>}
    ELSE {<<a, b>> : a \in team, b \in team} \ {<<a, a>> : a \in team}

\* one result of a draw: skipped, raising, or the rows it may insert
Skipped == [kind |-> "skip", rows |-> {}]

Raises == [kind |-> Raised, rows |-> {}]

IngestResult(player_id, result) ==
    IF ~result.hasPlayers \/ ~result.hasWinner \/ ~result.hasLoser \/ result.id = None
    THEN Skipped
    ELSE LET sp == ScoreParts(result.score)
             pl == result.players
         IN  IF sp.kind = Raised THEN Raises
             ELSE IF result.teamType # "DOUBLES"
             THEN IF pl.winner1 = Null \/ pl.loser1 = Null THEN Raises
                  ELSE IF IdOf(pl.winner1) = player_id
                  THEN [kind |-> "row",
                        rows |-> {MatchRow(result, "Singles", sp.parts, "Win",
                                           player_id, None, IdOf(pl.loser1), None)}]
                  ELSE IF IdOf(pl.loser1) = player_id
                  THEN [kind |-> "row",
                        rows |-> {MatchRow(result, "Singles", sp.parts, "Loss",
                                           player_id, None, IdOf(pl.winner1), None)}]
                  ELSE Skipped
             ELSE IF Null \in {pl.winner1, pl.winner2, pl.loser1, pl.loser2} THEN Raises
                  ELSE LET winner_team_ids == {IdOf(pl.winner1), IdOf(pl.winner2)}
                           loser_team_ids == {IdOf(pl.loser1), IdOf(pl.loser2)}
                       IN  IF player_id \in winner_team_ids
                           THEN [kind |-> "row",
                                 rows |-> {MatchRow(result, "Doubles", sp.parts, "Win",
                                               player_id,
                                               PartnerIn(winner_team_ids, player_id),
                                               o[1], o[2]) :
                                           o \in OpponentsIn(loser_team_ids)}]
                           ELSE IF player_id \in loser_team_ids
                           THEN [kind |-> "row",
                                 rows |-> {MatchRow(result, "Doubles", sp.parts, "Loss",
                                               player_id,
                                               PartnerIn(loser_team_ids, player_id),
                                               o[1], o[2]) :
                                           o \in OpponentsIn(winner_team_ids)}]
                           ELSE Skipped

\* the insertion as INSERT OR REPLACE: the row of a stored match_id is overwritten
InsertMatchOrReplace(table, row) ==
    IF \E k \in DOMAIN table : table[k].match_id = row.match_id
    THEN [k \in DOMAIN table |->
             IF table[k].match_id = row.match_id THEN row ELSE table[k]]
    ELSE Append(table, row)

\* INSERT OR IGNORE INTO matches, committed at once
InsertMatch(table, row) ==
    IF \E k \in DOMAIN table : table[k].match_id = row.match_id THEN table
    ELSE Append(table, row)

\* the results in feed order; an exception ends the loop and keeps what was inserted
RECURSIVE IngestLoop(_, _, _, _)
IngestLoop(player_id, results, i, table) ==
    IF i > Len(results) THEN {table}
    ELSE LET r == IngestResult(player_id, results[i])
         IN  IF r.kind = Raised THEN {table}
             ELSE IF r.kind = "skip" THEN IngestLoop(player_id, results, i + 1, table)
             ELSE UNION {IngestLoop(player_id, results, i + 1, InsertMatch(table, row)) :
                         row \in r.rows}

\* the tables load_player_match_stats may leave: a file that is not .json, is
\* missing or does not decode leaves the table as it is
LoadPlayerMatchStats(player_id, file, table) ==
    IF file.kind # "json" THEN {table}
    ELSE IngestLoop(player_id, file.results, 1, table)

----------------------------------------------------------------------------
(* TeamManager: tables teams and team_players of teams.db *)

\* year, league_type, section, district, area, season, flight, name
TeamAttrs ==
    {<<2025, "Adult 18 & Over", "Section A", "District 1", "Area X", "Spring",
       "Flight 1", "Original Team">>,
     <<2026, "Mixed 40 & Over", "Section B", "District 2", "Area Y", "Fall",
       "Flight 2", "Duplicate Team">>}

TeamNumbers == {"t1", "t2"}

\* a Team object
Team(team_number, attrs, players) ==
    [team_number |-> team_number, attrs |-> attrs, players |-> players]

\* Team.add_player
AddPlayer(players, player_id) ==
    IF \E k \in DOMAIN players : players[k] = player_id THEN players
    ELSE Append(players, player_id)

\* Team.remove_player
RemovePlayer(players, player_id) == SelectSeq(players, LAMBDA p : p # player_id)

\* the insert written as INSERT OR REPLACE: the row of the number is rewritten
AddTeamBasicInfoToDbReplace(table, team) ==
    Append(SelectSeq(table, LAMBDA row : row.team_number # team.team_number),
           [team_number |-> team.team_number, attrs |-> team.attrs])

\* INSERT INTO teams; the IntegrityError of a used team_number is caught
AddTeamBasicInfoToDb(table, team) ==
    IF \E k \in DOMAIN table : table[k].team_number = team.team_number THEN table
    ELSE Append(table, [team_number |-> team.team_number, attrs |-> team.attrs])

RECURSIVE Roster(_, _, _)
Roster(rows, k, players) ==
    IF k > Len(rows) THEN players
    ELSE Roster(rows, k + 1, AddPlayer(players, rows[k].player_id))

\* get_team: the team's row and the players of its team_players rows, in table order
GetTeam(team_number) ==
    IF \A k \in DOMAIN teams : teams[k].team_number # team_number THEN None
    ELSE LET row == teams[CHOOSE k \in DOMAIN teams : teams[k].team_number = team_number]
         IN  Team(team_number, row.attrs,
                  Roster(SelectSeq(team_players, LAMBDA r : r.team_number = team_number),
                         1, <<>>))

\* the insert into a table without its primary key
InsertTeamPlayerNoKey(table, team_number, player_id) ==
    Append(table, [team_number |-> team_number, player_id |-> player_id])

\* INSERT INTO team_players; the IntegrityError of a pair already stored is caught;
\* the foreign key is declared but not enforced by the connection
InsertTeamPlayer(table, team_number, player_id) ==
    IF \E k \in DOMAIN table :
           table[k].team_number = team_number /\ table[k].player_id = player_id
    THEN table
    ELSE Append(table, [team_number |-> team_number, player_id |-> player_id])

\* the delete with the team left out of its condition
DeleteTeamPlayerEveryTeam(table, team_number, player_id) ==
    SelectSeq(table, LAMBDA r : r.player_id # player_id)

\* DELETE FROM team_players WHERE team_number=? AND player_id=?
DeleteTeamPlayer(table, team_number, player_id) ==
    SelectSeq(table, LAMBDA r : ~(r.team_number = team_number /\ r.player_id = player_id))

----------------------------------------------------------------------------
(* data_saver: save_player_results and save_player_profile *)

DATA_DIR == "data/processed"

RAW_DIR == "data/raw"

DB_DIR == "data/db"

\* os.path.join(dir, f"player_{player_id}_{what}.{ext}")
FilePath(dir, player_id, what, ext) == <<dir, player_id, what, ext>>

\* pd.DataFrame(extracted_data): the keys of the records and their number
Frame(columns, nrows) == [columns |-> columns, nrows |-> nrows]

\* validation that asks for some column, not for the 'date' column
ValidateResultsDataAnyColumn(df) ==
    IF df.nrows = 0 \/ df.columns = {} THEN FALSE ELSE TRUE

ValidateResultsData(df) ==
    IF df.nrows = 0 \/ df.columns = {} THEN FALSE
    ELSE IF "date" \notin df.columns THEN FALSE
    ELSE TRUE

\* the progress of a save: the disk, the steps taken and whether it is still running
Saving(d, steps, kind) == [disk |-> d, steps |-> steps, kind |-> kind]

\* os.makedirs(dir, exist_ok=True)
MakeDirs(sv, dir, outcome) ==
    IF outcome = "ok"
    THEN Saving([sv.disk EXCEPT !.dirs = @ \cup {dir}],
                Append(sv.steps, <<"makedirs", dir>>), "ok")
    ELSE Saving(sv.disk, Append(sv.steps, <<"makedirs", dir>>), Raised)

\* a file written whole, refused before anything is written, or left torn
WriteFile(d, path, outcome) ==
    IF outcome = "ok"
    THEN [d EXCEPT !.written = @ \cup {path}, !.torn = @ \ {path}]
    ELSE IF outcome = "torn"
    THEN [d EXCEPT !.written = @ \ {path}, !.torn = @ \cup {path}]
    ELSE d

\* _save_parquet: df.to_parquet, its exception logged and dropped
SaveParquet(sv, path, outcome) ==
    Saving(WriteFile(sv.disk, path, outcome), Append(sv.steps, <<"to_parquet", path>>), "ok")

\* _save_json: open and json.dump, their exception logged and dropped
SaveJson(sv, path, outcome) ==
    Saving(WriteFile(sv.disk, path, outcome), Append(sv.steps, <<"json.dump", path>>), "ok")

\* the second try block of both saves
JsonStep(sv, player_id, what, env) ==
    LET made == MakeDirs(sv, RAW_DIR, env.raw_dir)
    IN  IF made.kind = Raised THEN Saving(made.disk, made.steps, "ok")
        ELSE SaveJson(made, FilePath(RAW_DIR, player_id, what, "json"), env.json)

\* the first try block of both saves, from os.makedirs on
ParquetStep(sv, player_id, what, env) ==
    LET made == MakeDirs(sv, DATA_DIR, env.data_dir)
    IN  IF made.kind = Raised THEN Saving(made.disk, made.steps, "ok")
        ELSE SaveParquet(made, FilePath(DATA_DIR, player_id, what, "parquet"), env.parquet)

\* save_player_results with the JSON step given up once the Parquet step failed
SavePlayerResultsStopOnFailure(d, extracted, player_id, env) ==
    LET sv == Saving(d, <<>>, "ok")
    IN  IF extracted.raises THEN sv
        ELSE IF ~ValidateResultsData(extracted.df) THEN sv
        ELSE IF env.data_dir # "ok" \/ env.parquet # "ok"
             THEN ParquetStep(sv, player_id, "results", env)
        ELSE JsonStep(ParquetStep(sv, player_id, "results", env), player_id, "results", env)

\* save_player_results: an extraction that raises is caught and the JSON step
\* follows; a validation that fails returns from inside the first try block
SavePlayerResults(d, extracted, player_id, env) ==
    LET sv == Saving(d, <<>>, "ok")
    IN  IF extracted.raises THEN JsonStep(sv, player_id, "results", env)
        ELSE IF ~ValidateResultsData(extracted.df) THEN sv
        ELSE JsonStep(ParquetStep(sv, player_id, "results", env), player_id, "results", env)

\* the third block of save_player_profile: os.makedirs outside any try, then
\* INSERT OR REPLACE INTO players under the profile's own id, sqlite3.Error caught
DbStep(sv, profile_id, env) ==
    LET made == MakeDirs(sv, DB_DIR, env.db_dir)
    IN  IF made.kind = Raised THEN made
        ELSE IF env.db = "ok"
        THEN Saving([made.disk EXCEPT !.players = @ \cup {profile_id}],
                    Append(made.steps, <<"insert", profile_id>>), "ok")
        ELSE Saving(made.disk, Append(made.steps, <<"insert", profile_id>>), "ok")

SavePlayerProfile(d, profile_id, player_id, env) ==
    DbStep(JsonStep(ParquetStep(Saving(d, <<>>, "ok"), player_id, "profile", env),
                    player_id, "profile", env),
           profile_id, env)

----------------------------------------------------------------------------
(* data_saver: _extract_results_data *)

\* a list of the feed: the key absent, the value null, or the items
NoList == [kind |-> Absent, items |-> <<>>]

NullList == [kind |-> Null, items |-> <<>>]

Listed(items) == [kind |-> "list", items |-> items]

\* a structure of the feed (players, score): the key absent, null, or an object
NoObject == [kind |-> Absent, members |-> <<>>]

NullObject == [kind |-> Null, members |-> <<>>]

Object(members) == [kind |-> "object", members |-> members]

\* a value of a record: None, or the text json.dumps wrote
PyNone == [kind |-> None, of |-> NoObject]

Text(value) == [kind |-> "str", of |-> value]

\* d.get(key): None for an absent key and for a null
Get(value) == IF value \in {Absent, Null} THEN None ELSE value

\* json.dumps(result.get(key, {})): the default stands in for an absent key only
Dumps(value) == IF value.kind = Absent THEN Text(Object(<<>>)) ELSE Text(value)

FeedEvent(id, name, draws) == [id |-> id, name |-> name, draws |-> draws]

FeedDraw(id, name, results) == [id |-> id, name |-> name, results |-> results]

FeedResult(id, date, players, score, plain) ==
    [id |-> id, date |-> date, players |-> players, score |-> score,
     teamType |-> plain, sportTypeId |-> plain, sourceType |-> plain,
     completionType |-> plain, outcome |-> plain, finalized |-> plain]

\* the dictionary appended for one result
ExtractedRecord(event, draw, result) ==
    [event_id |-> Get(event.id), event_name |-> Get(event.name),
     draw_id |-> Get(draw.id), draw_name |-> Get(draw.name),
     result_id |-> Get(result.id), date |-> Get(result.date),
     players |-> Dumps(result.players), score |-> Dumps(result.score),
     teamType |-> Get(result.teamType), sportTypeId |-> Get(result.sportTypeId),
     sourceType |-> Get(result.sourceType),
     completionType |-> Get(result.completionType),
     outcome |-> Get(result.outcome), finalized |-> Get(result.finalized)]

Extracted(kind, records) == [kind |-> kind, records |-> records]

\* for result in draw.get("results", []); a null list cannot be walked
ExtractDraw(event, draw, out) ==
    IF draw.results.kind = Null THEN Extracted(Raised, out)
    ELSE Extracted("ok", out \o [k \in DOMAIN draw.results.items |->
                                    ExtractedRecord(event, draw, draw.results.items[k])])

\* the walk that puts the results of a draw before those already extracted
RECURSIVE ExtractDrawsNewestFirst(_, _, _)
ExtractDrawsNewestFirst(event, j, out) ==
    IF event.draws.kind = Null THEN Extracted(Raised, out)
    ELSE IF j > Len(event.draws.items) THEN Extracted("ok", out)
    ELSE LET one == ExtractDraw(event, event.draws.items[j], <<>>)
         IN  IF one.kind = Raised THEN Extracted(Raised, out)
             ELSE ExtractDrawsNewestFirst(event, j + 1, one.records \o out)

\* for draw in event.get("draws", [])
RECURSIVE ExtractDraws(_, _, _)
ExtractDraws(event, j, out) ==
    IF event.draws.kind = Null THEN Extracted(Raised, out)
    ELSE IF j > Len(event.draws.items) THEN Extracted("ok", out)
    ELSE LET one == ExtractDraw(event, event.draws.items[j], out)
         IN  IF one.kind = Raised THEN one
             ELSE ExtractDraws(event, j + 1, one.records)

\* for event in results.get("events", [])
RECURSIVE ExtractEvents(_, _, _)
ExtractEvents(events, i, out) ==
    IF events.kind = Null THEN Extracted(Raised, out)
    ELSE IF i > Len(events.items) THEN Extracted("ok", out)
    ELSE LET one == ExtractDraws(events.items[i], 1, out)
         IN  IF one.kind = Raised THEN one
             ELSE ExtractEvents(events, i + 1, one.records)

\* _extract_results_data: the records, or the exception of a null list
ExtractResultsData(results) == ExtractEvents(results.events, 1, <<>>)

----------------------------------------------------------------------------
(* UTRAPI: authentication, the fetches and the choice among the players found *)

app_url == "https://app.utrsports.net"

auth_url == "https://app.utrsports.net/api/v1/auth/login"

search_url == "https://api.utrsports.net/v2/search/players"

profile_url == "https://api.utrsports.net/v1/player/{player_id}/profile"

results_url == "https://api.utrsports.net/v4/player/{player_id}/results"

stats_url == "https://api.utrsports.net/v4/player/{player_id}/all-stats"

True == "True"

False == "False"

\* the method object self._authenticate, which is not a call of it
BoundMethod == "<bound method UTRAPI._authenticate>"

\* what a request may do: answer, answer with a bad status, or not connect
Outcomes == {"ok", "bad status", "connection error"}

Request(method, url) == <<method, url>>

\* the result of an operation of the client: its value, the flag it leaves and
\* the requests it sent
Done(value, flag, sent) == [value |-> value, flag |-> flag, sent |-> sent]

\* _authenticate: the GET of the landing page is outside the try and is not
\* checked for its status; a failed login returns False and writes no flag
Authenticate(flag, landing, login) ==
    IF landing = "connection error"
    THEN Done(Raised, flag, <<Request("GET", app_url)>>)
    ELSE IF login = "ok"
    THEN Done(True, TRUE, <<Request("GET", app_url), Request("POST", auth_url)>>)
    ELSE Done(False, flag, <<Request("GET", app_url), Request("POST", auth_url)>>)

\* _ensure_authenticated: returns the method itself when the flag is off
EnsureAuthenticated(flag) ==
    IF ~flag THEN Done(BoundMethod, flag, <<>>) ELSE Done(True, flag, <<>>)

\* the truth value Python gives the value of an if
Truthy(value) == value \notin {False, None}

ResponseJson == "response.json()"

\* get_player_profile, get_player_results, get_player_stats
Fetch(flag, url, outcome) ==
    LET ensured == EnsureAuthenticated(flag)
    IN  IF ~Truthy(ensured.value) THEN Done(None, ensured.flag, ensured.sent)
        ELSE Done(IF outcome = "ok" THEN ResponseJson ELSE None,
                  ensured.flag, Append(ensured.sent, Request("GET", url)))

\* a hit of the search; the source lists displayName, id and location
Hit(source) == [source |-> source]

Source(displayName, id, location) == Object(<<displayName, id, location>>)

\* not source: the key absent gives {}, and {} and null are both false
HasSource(source) == source.kind = "object" /\ source.members # <<>>

\* the entry of player_list built from a source
Player(source) ==
    [displayName |-> IF source.members[1] = Absent THEN "Unknown"
                     ELSE Get(source.members[1]),
     id |-> Get(source.members[2]),
     location |-> IF source.members[3] \in {Absent, Null} THEN "Unknown Location"
                  ELSE source.members[3]]

RECURSIVE PlayerList(_, _)
PlayerList(hits, k) ==
    IF k > Len(hits) THEN <<>>
    ELSE IF ~HasSource(hits[k].source) THEN PlayerList(hits, k + 1)
    ELSE <<Player(hits[k].source)>> \o PlayerList(hits, k + 1)

Nobody == [displayName |-> None, id |-> None, location |-> None]

\* what search_player returns, and its wait for an input
NotFound == [kind |-> None, player |-> Nobody]

Found(player) == [kind |-> "player", player |-> player]

Awaiting == [kind |-> "input", player |-> Nobody]

\* str.strip of the line typed
RECURSIVE StripLeft(_)
StripLeft(str) == IF str = <<>> \/ Head(str) # " " THEN str ELSE StripLeft(Tail(str))

RECURSIVE StripRight(_)
StripRight(str) ==
    IF str = <<>> \/ str[Len(str)] # " " THEN str
    ELSE StripRight(SubSeq(str, 1, Len(str) - 1))

Strip(str) == StripRight(StripLeft(str))

Digits == <<"0", "1", "2", "3", "4", "5", "6", "7", "8", "9">>

DigitValue(c) == (CHOOSE d \in DOMAIN Digits : Digits[d] = c) - 1

RECURSIVE Decimal(_)
Decimal(str) ==
    IF str = <<>> THEN 0 ELSE 10 * Decimal(SubSeq(str, 1, Len(str) - 1)) + DigitValue(str[Len(str)])

\* int(user_input): a sign and digits, ValueError for anything else
IntOf(str) ==
    LET body == IF str # <<>> /\ Head(str) \in {"+", "-"} THEN Tail(str) ELSE str
    IN  IF body = <<>> \/ \E k \in DOMAIN body : \A d \in DOMAIN Digits : Digits[d] # body[k]
        THEN [ok |-> FALSE, value |-> 0]
        ELSE [ok |-> TRUE,
              value |-> IF Head(str) = "-" THEN -Decimal(body) ELSE Decimal(body)]

\* one turn of the while loop with the choice counted from 0
ChooseOffByOne(player_list, line) ==
    LET user_input == Strip(line)
    IN  IF user_input = <<>> THEN Found(player_list[1])
        ELSE LET choice == IntOf(user_input)
             IN  IF ~choice.ok THEN Awaiting
                 ELSE IF choice.value = 0 THEN NotFound
                 ELSE IF 1 <= choice.value /\ choice.value < Len(player_list)
                 THEN Found(player_list[choice.value + 1])
                 ELSE Awaiting

\* one turn of the while loop: the value returned, or another prompt
Choose(player_list, line) ==
    LET user_input == Strip(line)
    IN  IF user_input = <<>> THEN Found(player_list[1])
        ELSE LET choice == IntOf(user_input)
             IN  IF ~choice.ok THEN Awaiting
                 ELSE IF choice.value = 0 THEN NotFound
                 ELSE IF 1 <= choice.value /\ choice.value <= Len(player_list)
                 THEN Found(player_list[choice.value])
                 ELSE Awaiting

\* search_player up to its first prompt
SearchPlayer(flag, outcome, hits) ==
    LET ensured == EnsureAuthenticated(flag)
        sent == Append(ensured.sent, Request("GET", search_url))
        player_list == PlayerList(hits, 1)
    IN  IF ~Truthy(ensured.value) THEN Done(NotFound, ensured.flag, ensured.sent)
        ELSE IF outcome # "ok" THEN Done(NotFound, ensured.flag, sent)
        ELSE IF player_list = <<>> THEN Done(NotFound, ensured.flag, sent)
        ELSE IF Len(player_list) > 1 THEN Done(Awaiting, ensured.flag, sent)
        ELSE Done(Found(player_list[1]), ensured.flag, sent)


----------------------------------------------------------------------------
(* analytics/utr_score: the second locator *)

\* json.load of the stats file opened in place; a file that cannot be opened raises
ScoreStats(player_id, match_type) == stats[player_id][match_type]

\* pd.read_parquet of the profile file in place, then the comparison of
\* player_id_lookup; any exception gives None
ScorePlayerIdLookup(player_id, player_name) ==
    LET r == IF ~profile[player_id].exists THEN Raised
             ELSE PlayerIdLookupBody(player_id, player_name)
    IN  IF r = Raised THEN None ELSE r

\* the attribution with no name or pair bound beforehand: an index is read
\* only by the test or the return that uses it
ScoreAttribute(player_id, name_matches, utr_matches) ==
    IF Len(name_matches) < 2 THEN Raised
    ELSE IF player_id \in {ScorePlayerIdLookup(player_id, name_matches[1]),
                           ScorePlayerIdLookup(player_id, name_matches[2])}
    THEN IF player_id = ScorePlayerIdLookup(player_id, name_matches[1])
         THEN utr_matches[1][1]
         ELSE utr_matches[1][2]
    ELSE IF Len(name_matches) < 4 THEN Raised
    ELSE IF player_id \in {ScorePlayerIdLookup(player_id, name_matches[3]),
                           ScorePlayerIdLookup(player_id, name_matches[4])}
    THEN IF Len(utr_matches) < 2 THEN Raised
         ELSE IF player_id = ScorePlayerIdLookup(player_id, name_matches[3])
         THEN utr_matches[2][1]
         ELSE utr_matches[2][2]
    ELSE None

\* one pass of the inner loop body: a rating or None (return), Raised, or Continue
ScoreDoublesEntry(player_id, details, match_date) ==
    LET utr_matches == UtrMatches(details)
        name_matches == NameMatches(details)
    IN  IF DateMatch(details) /\ utr_matches # <<>> /\ name_matches # <<>>
        THEN LET month_num == details[2].m
                 row_date == Date(InferYear(month_num), month_num, details[3].d)
             IN  IF month_num \notin 1..12 THEN Raised
                 ELSE IF ~ValidDate(row_date) THEN Raised
                 ELSE IF row_date = match_date
                      THEN ScoreAttribute(player_id, name_matches, utr_matches)
                 ELSE Continue
        ELSE None

RECURSIVE ScoreScanResults(_, _, _, _)
ScoreScanResults(player_id, month, i, match_date) ==
    IF i > Len(month.results) THEN Continue
    ELSE LET r == ScoreDoublesEntry(player_id, month.results[i].details, match_date)
         IN  IF r = Continue
             THEN ScoreScanResults(player_id, month, i + 1, match_date)
             ELSE r

RECURSIVE ScoreScanMonths(_, _, _, _)
ScoreScanMonths(player_id, months, j, match_date) ==
    IF j > Len(months) THEN None
    ELSE LET r == IF months[j].hasResults /\ months[j].results # <<>>
                  THEN ScoreScanResults(player_id, months[j], 1, match_date)
                  ELSE Continue
         IN  IF r = Continue
             THEN ScoreScanMonths(player_id, months, j + 1, match_date)
             ELSE r

\* the whole function: any exception of either branch is caught and None returned
ScoreGetMatchUtr(player_id, resultDate, match_type) ==
    LET st == ScoreStats(player_id, match_type)
        r == IF ~st.exists THEN Raised
             ELSE IF ~st.hasChart \/ ~st.hasMonths \/ st.months = <<>> THEN None
             ELSE IF ~WellFormed(resultDate) THEN Raised
             ELSE IF match_type = "singles"
                  THEN ScanSinglesMonths(st.months, 1, DatePart(resultDate))
                  ELSE ScoreScanMonths(player_id, st.months, 1, DatePart(resultDate))
    IN  IF r = Raised THEN None ELSE r

----------------------------------------------------------------------------
(* Historical rating estimator (spec 4.5).  Ratings are counted in hundredths:   *)
(* 800 is the rating 8.00.                                                       *)

\* the fixed adjustment, 0.02
Adjustment == 2

\* a rating-shift record: the masked outcome, and the unmasked rating when known
ShiftRecord(win, hasUnmasked, unmasked) ==
    [win |-> win, hasUnmasked |-> hasUnmasked, unmasked |-> unmasked]

WithEstimate(rec, estimatedRating) ==
    [win |-> rec.win, hasUnmasked |-> rec.hasUnmasked, unmasked |-> rec.unmasked,
     estimatedRating |-> estimatedRating]

\* the walk with each record adjusted by its own outcome
RECURSIVE EstimateWalkOwnOutcome(_, _, _)
EstimateWalkOwnOutcome(shiftRecords, i, out) ==
    IF i > Len(shiftRecords) THEN out
    ELSE EstimateWalkOwnOutcome(shiftRecords, i + 1,
             Append(out, WithEstimate(shiftRecords[i],
                 out[i - 1].estimatedRating
                     + (IF shiftRecords[i].win THEN Adjustment ELSE -Adjustment))))

\* records 2.. in order: the previous record's estimate, moved by the previous
\* record's masked outcome
RECURSIVE EstimateWalk(_, _, _)
EstimateWalk(shiftRecords, i, out) ==
    IF i > Len(shiftRecords) THEN out
    ELSE EstimateWalk(shiftRecords, i + 1,
             Append(out, WithEstimate(shiftRecords[i],
                 out[i - 1].estimatedRating
                     + (IF shiftRecords[i - 1].win THEN Adjustment ELSE -Adjustment))))

\* estimate on a sequence sorted most recent first
Estimate(shiftRecords) ==
    IF shiftRecords = <<>> THEN shiftRecords
    ELSE EstimateWalk(shiftRecords, 2,
                      <<WithEstimate(shiftRecords[1], shiftRecords[1].unmasked)>>)

----------------------------------------------------------------------------
(* Weighted rating aggregator (spec 4.6).  The decay 0.95 is the fraction 19/20; *)
(* the weight 0.95^i of position i among n is 19^i * 20^(n-1-i) over 20^(n-1).   *)

DecayNum == 19

DecayDen == 20

RECURSIVE Pow(_, _)
Pow(b, k) == IF k = 0 THEN 1 ELSE b * Pow(b, k - 1)

Reverse(seq) == [k \in 1..Len(seq) |-> seq[Len(seq) + 1 - k]]

\* the weight of the k-th of n observations, counted from the most recent
Weight(k, n) == Pow(DecayNum, k - 1) * Pow(DecayDen, n - k)

RECURSIVE SumTo(_, _)
SumTo(f, k) == IF k = 0 THEN 0 ELSE f[k] + SumTo(f, k - 1)

\* round(a / b, 2) of a quotient counted in hundredths, b > 0
RoundDiv(a, b) == (2 * a + b) \div (2 * b)

\* the weighted mean of observations given most recent first
WeightedMean(recentFirst) ==
    LET n == Len(recentFirst)
    IN  RoundDiv(SumTo([k \in 1..n |-> recentFirst[k] * Weight(k, n)], n),
                 SumTo([k \in 1..n |-> Weight(k, n)], n))

\* the aggregate with the order of the observations never looked at
AggregateFirstIsRecent(ratings, mostRecentFirst) ==
    IF ratings = <<>> THEN None ELSE WeightedMean(ratings)

Aggregate(ratings, mostRecentFirst) ==
    IF ratings = <<>> THEN None
    ELSE WeightedMean(IF mostRecentFirst THEN ratings ELSE Reverse(ratings))

----------------------------------------------------------------------------
(* The values the feeds and the calls are drawn from *)

Subject == "p1"

SeqsUpTo(S, n) == UNION {[1..k -> S] : k \in 0..n}

John == <<"J", "o", "h", "n">>
Smith == <<"S", "m", "i", "t", "h">>
JSmith == <<"J", ".", "S", "m", "i", "t", "h">>
AJones == <<"A", ".", "J", "o", "n", "e", "s">>
KLee == <<"K", ".", "L", "e", "e">>
MChen == <<"M", ".", "C", "h", "e", "n">>
SOpen == <<"S", ".", "O", "p", "e", "n">>

\* match dates asked for: 15th of Jan, Mar, Dec of two years, a second time of day,
\* the next day, a leap day, and a date that does not parse
MatchStamps ==
    {Stamp(y, m, 15, 10) : y \in {2024, 2025}, m \in {1, 3, 12}}
        \cup {Stamp(2025, 3, 15, 18), Stamp(2025, 3, 16, 10), Stamp(2024, 2, 29, 10), BadStamp}

\* ---- singles ----

SinglesEntry(resultDate) == Entry(resultDate, <<Word>>)

SinglesRatings ==
    {<<FALSE, <<>>>>, <<TRUE, <<>>>>, <<TRUE, <<"7.5", "6.25">>>>, <<TRUE, <<"6.25">>>>}

SinglesResults ==
    {<<FALSE, <<>>>>,
     <<TRUE, <<SinglesEntry(Stamp(2025, 3, 15, 10))>>>>,
     <<TRUE, <<SinglesEntry(Stamp(2024, 12, 15, 10))>>>>,
     <<TRUE, <<SinglesEntry(Stamp(2024, 12, 15, 10)), SinglesEntry(Stamp(2025, 3, 15, 18))>>>>,
     <<TRUE, <<SinglesEntry(BadStamp)>>>>}

SinglesBuckets ==
    {Bucket(r[1], r[2], e[1], e[2]) : r \in SinglesRatings, e \in SinglesResults}

\* ---- doubles ----

OtherName(k) ==
    CASE k = 1 -> AJones
      [] k = 2 -> KLee
      [] k = 3 -> MChen
      [] OTHER -> SOpen

\* the k-th of n name tokens; the subject's own short name at the positions in at
NameToks(n, at) == [k \in 1..n |-> Name(IF k \in at THEN JSmith ELSE OtherName(k))]

PairAt(k) ==
    CASE k = 1 -> Pair("11.2", "9.8")
      [] k = 2 -> Pair("10.1", "8.5")
      [] OTHER -> Pair("3.3", "4.4")

PairToks(n) == [k \in 1..n |-> PairAt(k)]

\* "Sat Mar 15 <names> <pairs>", without the date tokens when hasDate is false
Shape(hasDate, month_num, day, npairs, nnames, at) ==
    Entry(Stamp(2025, 3, 15, 10),
          (IF hasDate THEN <<Dow, Mon(month_num), Day(day)>> ELSE <<Word>>)
              \o NameToks(nnames, at) \o PairToks(npairs))

\* "Sat Mar 15 n1/n2 (11.2/9.8) def n3/n4 (10.1/8.5)", the subject at the positions in at
Usual(month_num, day, at) ==
    LET n == NameToks(4, at)
    IN  Entry(Stamp(2025, 3, 15, 10),
              <<Dow, Mon(month_num), Day(day), n[1], n[2], PairAt(1), Word,
                n[3], n[4], PairAt(2)>>)

G(pos) == Usual(3, 15, {pos})

\* the same day without the subject, the subject in both teams, the subject a day later,
\* a description without its date token
NonParticipant == Usual(3, 15, {})
BothTeams == Usual(3, 15, {2, 3})
NextDay == Usual(3, 16, {1})
Undated == Shape(FALSE, 3, 15, 2, 4, {1})

DoublesPool == {G(1), G(2), G(3), G(4), NonParticipant, BothTeams, NextDay, Undated}

OneEntry(e) == Bucket(FALSE, <<>>, TRUE, <<e>>)

DoublesBuckets ==
    {OneEntry(e) : e \in DoublesPool}
        \cup {Bucket(FALSE, <<>>, FALSE, <<>>),
              Bucket(FALSE, <<>>, TRUE, <<Undated, G(1)>>),
              Bucket(FALSE, <<>>, TRUE, <<NextDay, G(2)>>),
              Bucket(FALSE, <<>>, TRUE, <<NonParticipant, G(3)>>)}

ShapeEntries ==
    {Shape(hasDate, 3, 15, npairs, Cardinality(DOMAIN names), {k \in DOMAIN names : names[k]})
        : hasDate \in BOOLEAN, npairs \in 0..MaxPairs,
          names \in SeqsUpTo(BOOLEAN, MaxNames)}

YearEntries == {Usual(m, d, {1}) : m \in {0, 1, 2, 3, 12}, d \in {15, 29, 31}}

Nows == {[y |-> 2025, m |-> 3], [y |-> 2025, m |-> 1], [y |-> 2025, m |-> 12]}

\* ---- profiles ----

ProfilePool ==
    {NoProfile, NamelessProfile,
     Profile(<<>>, Smith),
     Profile(John, Smith),
     Profile(<<"j", "o", "h", "n">>, Smith),
     Profile(John, <<"s", "m", "i", "t", "h">>),
     Profile(<<"A", "n", "n">>, <<"J", "o", "n", "e", "s">>)}

LookupNames ==
    {JSmith, AJones,
     <<"j", ".", "S", "m", "i", "t", "h">>,
     <<"J", ".", "s", "m", "i", "t", "h">>,
     <<"J", ".", "S", "m", "i", "t">>,
     <<"J", "S", "m", "i", "t", "h">>}

\* ---- stats files ----

SinglesBucket ==
    Bucket(TRUE, <<"7.5", "6.25">>, TRUE, <<Entry(Stamp(2025, 3, 15, 10), G(1).details)>>)

StatsPool == {NoFile, NoChart, NoMonths, Chart(<<>>), Chart(<<SinglesBucket>>)}

\* ---- results rows ----

EventName(event_id) == IF event_id = "e1" THEN "Spring Open" ELSE "Winter Cup"

RowPool ==
    {Row(e, pl, dt, EventName(e)) :
        e \in {"e1", "e2"},
        pl \in {Players(FALSE, None), Players(TRUE, None), Players(TRUE, "p9")},
        dt \in {Stamp(2025, 3, 15, 10), Stamp(2025, 3, 15, 18), Stamp(2024, 12, 15, 10)}}

SinglesRow == Row("e1", Players(TRUE, None), Stamp(2025, 3, 15, 10), EventName("e1"))

DoublesRow == Row("e2", Players(TRUE, "p9"), Stamp(2025, 3, 15, 18), EventName("e2"))

----------------------------------------------------------------------------
(* The operations *)

GetMatchUtrCall ==
    \E player_id \in PlayerIds, resultDate \in MatchStamps, match_type \in MatchTypes :
        /\ op = "idle"
        /\ op' = "get_match_utr"
        /\ args' = [player_id |-> player_id, resultDate |-> resultDate,
                    match_type |-> match_type, now |-> now]
        /\ ret' = GetMatchUtr(player_id, resultDate, match_type)
        /\ calls' = <<>>
        /\ UNCHANGED <<feeds, stores>>

PlayerIdLookupCall ==
    \E player_id \in PlayerIds, player_name \in LookupNames :
        /\ op = "idle"
        /\ op' = "player_id_lookup"
        /\ args' = [player_id |-> player_id, player_name |-> player_name]
        /\ ret' = PlayerIdLookup(player_id, player_name)
        /\ calls' = <<>>
        /\ UNCHANGED <<feeds, stores>>

GetPlayerUtrScoresCall ==
    \E player_id \in PlayerIds :
        LET r == GetPlayerUtrScores(player_id)
        IN  /\ op = "idle"
            /\ op' = "get_player_utr_scores"
            /\ args' = [player_id |-> player_id]
            /\ ret' = [kind |-> r.kind, match_utrs |-> r.match_utrs]
            /\ calls' = r.made
            /\ UNCHANGED <<feeds, stores>>

\* the caller takes the returned value; the next call starts from the same stored feeds
Return ==
    /\ op \notin {"idle", "input"}
    /\ op' = "idle"
    /\ args' = <<>>
    /\ ret' = None
    /\ calls' = <<>>
    /\ UNCHANGED <<feeds, stores>>

\* time passes between two calls: datetime.now() gives another processing date
ClockAdvance ==
    \E n \in Nows :
        /\ n # now
        /\ now' = n
        /\ UNCHANGED <<stats, profile, results_df, op, args, ret, calls, stores>>

\* ---- rating-shift records and period ratings ----

RecordPool ==
    {ShiftRecord(w, TRUE, u) : w \in BOOLEAN, u \in {750, 800}}
        \cup {ShiftRecord(w, FALSE, 0) : w \in BOOLEAN}

\* sequences whose most recent record carries its unmasked rating
ShiftSequences == {rs \in SeqsUpTo(RecordPool, MaxRecords) : rs = <<>> \/ rs[1].hasUnmasked}

RatingPool == {800, 900, 1000}

EstimateCall ==
    \E shiftRecords \in ShiftSequences :
        /\ op = "idle"
        /\ op' = "estimate"
        /\ args' = [shiftRecords |-> shiftRecords]
        /\ ret' = Estimate(shiftRecords)
        /\ calls' = <<>>
        /\ UNCHANGED <<feeds, stores>>

AggregateCall ==
    \E ratings \in SeqsUpTo(RatingPool, MaxRatings), mostRecentFirst \in BOOLEAN :
        /\ op = "idle"
        /\ op' = "aggregate"
        /\ args' = [ratings |-> ratings, mostRecentFirst |-> mostRecentFirst]
        /\ ret' = Aggregate(ratings, mostRecentFirst)
        /\ calls' = <<>>
        /\ UNCHANGED <<feeds, stores>>

\* ---- match results of a results file ----

Result(id, teamType, hasWinner, players, score) ==
    [id |-> id, date |-> Stamp(2025, 3, 15, 10), teamType |-> teamType,
     hasPlayers |-> TRUE, hasWinner |-> hasWinner, hasLoser |-> TRUE,
     players |-> players, score |-> score]

SidePlayers(w1, w2, l1, l2) == [winner1 |-> w1, winner2 |-> w2, loser1 |-> l1, loser2 |-> l2]

NoScore(kind) == [kind |-> kind, sets |-> <<>>]

Sets(sets) == [kind |-> "sets", sets |-> sets]

TwoSets == Sets(<<<<6, 3>>, <<6, 4>>>>)

\* singles results carry null second players, as the feed writes them
ResultPool ==
    {Result("m1", "SINGLES", TRUE, SidePlayers("p1", Null, "p2", Null), sc) :
         sc \in {TwoSets, NoScore(Absent), NoScore(Null), Sets(<<<<6, 3>>, <<>>>>)}}
      \cup {Result("m2", "SINGLES", TRUE, SidePlayers("p2", Null, "p1", Null), TwoSets),
            Result("m2", "DOUBLES", TRUE, SidePlayers("p1", "p3", "p2", "p4"), TwoSets),
            Result("m2", "DOUBLES", TRUE, SidePlayers("p1", Null, "p2", "p4"), TwoSets),
            Result("m1", "SINGLES", TRUE, SidePlayers("p3", Null, "p4", Null), TwoSets),
            Result("m1", "SINGLES", TRUE, SidePlayers("p3", Null, "p4", Null), NoScore(Null)),
            Result("m2", "SINGLES", FALSE, SidePlayers("p1", Null, "p2", Null), TwoSets)}

FilePool ==
    {[kind |-> "json", results |-> rs] : rs \in SeqsUpTo(ResultPool, MaxResults)}
        \cup {[kind |-> k, results |-> <<>>] : k \in {"missing", "parquet"}}

\* the results files two players share: the same matches seen from either side,
\* a match id met twice with other contents, and a result that raises
SharedResultPool ==
    {Result("m1", "SINGLES", TRUE, SidePlayers("p1", Null, "p2", Null), TwoSets),
     Result("m1", "SINGLES", TRUE, SidePlayers("p2", Null, "p1", Null), Sets(<<<<7, 5>>>>)),
     Result("m2", "DOUBLES", TRUE, SidePlayers("p1", "p3", "p2", "p4"), TwoSets),
     Result("m2", "SINGLES", TRUE, SidePlayers("p2", Null, "p1", Null), NoScore(Null))}

SharedFilePool ==
    {[kind |-> "json", results |-> rs] : rs \in SeqsUpTo(SharedResultPool, MaxResults)}
        \cup {[kind |-> k, results |-> <<>>] : k \in {"missing", "parquet"}}

\* load_player_match_stats with the file drawn from files
LoadFrom(files) ==
    \E player_id \in PlayerIds, file \in files :
        \E table \in LoadPlayerMatchStats(player_id, file, matches) :
            /\ op = "idle"
            /\ op' = "load_player_match_stats"
            /\ args' = [player_id |-> player_id, file |-> file]
            /\ ret' = None
            /\ calls' = <<>>
            /\ matches' = table
            /\ UNCHANGED <<feeds, teams, team_players, disk, authenticated>>

LoadPlayerMatchStatsCall == LoadFrom(FilePool)

LoadSharedFileCall == LoadFrom(SharedFilePool)

\* ---- TeamManager ----

CreateTeamCall ==
    \E team_number \in TeamNumbers, attrs \in TeamAttrs :
        LET team == Team(team_number, attrs, <<>>)
        IN  /\ op = "idle"
            /\ op' = "create_team"
            /\ args' = [team_number |-> team_number, attrs |-> attrs]
            /\ teams' = AddTeamBasicInfoToDb(teams, team)
            /\ ret' = team
            /\ calls' = <<>>
            /\ UNCHANGED <<feeds, team_players, disk, matches, authenticated>>

GetTeamCall ==
    \E team_number \in TeamNumbers :
        /\ op = "idle"
        /\ op' = "get_team"
        /\ args' = [team_number |-> team_number]
        /\ ret' = GetTeam(team_number)
        /\ calls' = <<>>
        /\ UNCHANGED <<feeds, stores>>

\* the Team object fetched and updated after the write is dropped on return
AddPlayerToTeamCall ==
    \E team_number \in TeamNumbers, player_id \in PlayerIds :
        /\ op = "idle"
        /\ op' = "add_player_to_team"
        /\ args' = [team_number |-> team_number, player_id |-> player_id]
        /\ team_players' = InsertTeamPlayer(team_players, team_number, player_id)
        /\ ret' = None
        /\ calls' = <<>>
        /\ UNCHANGED <<feeds, teams, disk, matches, authenticated>>

RemovePlayerFromTeamCall ==
    \E team_number \in TeamNumbers, player_id \in PlayerIds :
        /\ op = "idle"
        /\ op' = "remove_player_from_team"
        /\ args' = [team_number |-> team_number, player_id |-> player_id]
        /\ team_players' = DeleteTeamPlayer(team_players, team_number, player_id)
        /\ ret' = None
        /\ calls' = <<>>
        /\ UNCHANGED <<feeds, teams, disk, matches, authenticated>>

\* ---- data saver ----

\* what the directories and the writes of a save may do
SaveEnvs ==
    [data_dir : {"ok", Raised}, parquet : {"ok", "refused", "torn"},
     raw_dir : {"ok", Raised}, json : {"ok", "refused", "torn"},
     db_dir : {"ok"}, db : {"ok"}]

ProfileEnvs ==
    [data_dir : {"ok", Raised}, parquet : {"ok", "refused"},
     raw_dir : {"ok", Raised}, json : {"ok", "refused"},
     db_dir : {"ok", Raised}, db : {"ok", "error"}]

\* what _extract_results_data gives: no record, records with their date, or, for
\* results that are no dict, an exception; records without a date come from an
\* extractor put in its place
Extractions ==
    {[raises |-> FALSE, df |-> Frame({}, 0)],
     [raises |-> FALSE, df |-> Frame({"event_id", "date", "players"}, 2)],
     [raises |-> FALSE, df |-> Frame({"match"}, 2)],
     [raises |-> TRUE, df |-> Frame({}, 0)]}

SavePlayerResultsCall ==
    \E extracted \in Extractions, env \in SaveEnvs :
        LET sv == SavePlayerResults(disk, extracted, Subject, env)
        IN  /\ op = "idle"
            /\ op' = "save_player_results"
            /\ args' = [player_id |-> Subject, extracted |-> extracted, env |-> env]
            /\ disk' = sv.disk
            /\ calls' = sv.steps
            /\ ret' = IF sv.kind = Raised THEN Raised ELSE None
            /\ UNCHANGED <<feeds, teams, team_players, matches, authenticated>>

SavePlayerProfileCall ==
    \E profile_id \in {Subject, None}, env \in ProfileEnvs :
        LET sv == SavePlayerProfile(disk, profile_id, Subject, env)
        IN  /\ op = "idle"
            /\ op' = "save_player_profile"
            /\ args' = [player_id |-> Subject, profile_id |-> profile_id, env |-> env]
            /\ disk' = sv.disk
            /\ calls' = sv.steps
            /\ ret' = IF sv.kind = Raised THEN Raised ELSE None
            /\ UNCHANGED <<feeds, teams, team_players, matches, authenticated>>

\* ---- results feeds ----

\* the players and the score of a result, as given, absent or null
NamedPlayers == Object(<<"p1", "p2">>)

SetScores == Object(<<"6-3", "6-4">>)

FeedResults ==
    {FeedResult("r1", "2025-03-15T10:00:00", NamedPlayers, SetScores, "x"),
     FeedResult("r2", "2025-03-16T10:00:00", NoObject, NoObject, Absent),
     FeedResult(Absent, Absent, NullObject, SetScores, Null)}

\* draws without results, with a null list, with one result and with two
DrawKinds ==
    {FeedDraw("d1", "Main Draw", NoList), FeedDraw("d2", Absent, NullList),
     FeedDraw(Absent, "Consolation", Listed(<<CHOOSE r \in FeedResults : r.id = "r2">>)),
     FeedDraw("d3", "Qualifying", Listed(<<CHOOSE r \in FeedResults : r.id = "r2",
                                           CHOOSE r \in FeedResults : r.id = "r1">>))}

\* a draw with results of every kind in every order
ResultDraws ==
    {FeedDraw("d1", "Main Draw", Listed(rs)) : rs \in SeqsUpTo(FeedResults, MaxResults)}

FeedDraws == DrawKinds \cup ResultDraws

\* the events whose draws vary: several draws of the four kinds, or one draw
\* whose results vary
FeedEvents ==
    {FeedEvent("e1", "Spring Open", Listed(ds)) : ds \in SeqsUpTo(DrawKinds, MaxDraws)}
        \cup {FeedEvent("e1", "Spring Open", Listed(<<d>>)) : d \in ResultDraws}

\* the events that come before or after them
PlainEvents ==
    {FeedEvent("e2", "Winter Cup", NoList), FeedEvent("e2", Absent, NullList)}
        \cup {FeedEvent(Absent, "Winter Cup", Listed(<<d>>)) :
                  d \in {dr \in FeedDraws : dr.id = Absent}}

FeedPool ==
    {[events |-> NoList], [events |-> NullList], [events |-> Listed(<<>>)]}
        \cup {[events |-> Listed(<<e>> \o es)] :
                  e \in FeedEvents, es \in SeqsUpTo(PlainEvents, MaxEvents - 1)}
        \cup {[events |-> Listed(es \o <<e>>)] :
                  e \in FeedEvents, es \in SeqsUpTo(PlainEvents, MaxEvents - 1)}

ExtractResultsDataCall ==
    \E results \in FeedPool :
        LET r == ExtractResultsData(results)
        IN  /\ op = "idle"
            /\ op' = "_extract_results_data"
            /\ args' = [results |-> results]
            /\ ret' = IF r.kind = Raised THEN Extracted(Raised, <<>>) ELSE r
            /\ calls' = <<>>
            /\ UNCHANGED <<feeds, stores>>

\* ---- API client ----

HitPool ==
    {Hit(NoObject), Hit(NullObject), Hit(Object(<<>>)),
     Hit(Source("Ann Lee", "p1", "Austin, TX")), Hit(Source("Bo Chen", "p2", Null)),
     Hit(Source(Absent, Absent, Absent))}

\* the lines typed at the prompt
Lines ==
    {<<>>, <<" ">>, <<"0">>, <<"1">>, <<" ", "2", " ">>, <<"+", "1">>, <<"3">>,
     <<"9">>, <<"-", "1">>, <<"a">>, <<"1", ".", "0">>}

AuthenticateCall ==
    \E landing \in Outcomes, login \in Outcomes :
        LET r == Authenticate(authenticated, landing, login)
        IN  /\ op = "idle"
            /\ op' = "_authenticate"
            /\ args' = [landing |-> landing, login |-> login, authenticated |-> authenticated]
            /\ ret' = r.value
            /\ calls' = r.sent
            /\ authenticated' = r.flag
            /\ UNCHANGED <<feeds, teams, team_players, disk, matches>>

EnsureAuthenticatedCall ==
    LET r == EnsureAuthenticated(authenticated)
    IN  /\ op = "idle"
        /\ op' = "_ensure_authenticated"
        /\ args' = [authenticated |-> authenticated]
        /\ ret' = r.value
        /\ calls' = r.sent
        /\ authenticated' = r.flag
        /\ UNCHANGED <<feeds, teams, team_players, disk, matches>>

FetchCall ==
    \E fetch \in {<<"get_player_profile", profile_url>>, <<"get_player_results", results_url>>,
                  <<"get_player_stats", stats_url>>},
       outcome \in Outcomes :
        LET r == Fetch(authenticated, fetch[2], outcome)
        IN  /\ op = "idle"
            /\ op' = fetch[1]
            /\ args' = [url |-> fetch[2], outcome |-> outcome, authenticated |-> authenticated]
            /\ ret' = r.value
            /\ calls' = r.sent
            /\ authenticated' = r.flag
            /\ UNCHANGED <<feeds, teams, team_players, disk, matches>>

\* search_player as far as its return or its first prompt
SearchPlayerCall ==
    \E outcome \in Outcomes, hits \in SeqsUpTo(HitPool, MaxHits) :
        LET r == SearchPlayer(authenticated, outcome, hits)
        IN  /\ op = "idle"
            /\ outcome # "ok" => hits = <<>>
            /\ op' = IF r.value = Awaiting THEN "input" ELSE "search_player"
            /\ args' = [url |-> search_url, outcome |-> outcome, hits |-> hits,
                        authenticated |-> authenticated, typed |-> 0, line |-> <<>>]
            /\ ret' = r.value
            /\ calls' = r.sent
            /\ authenticated' = r.flag
            /\ UNCHANGED <<feeds, teams, team_players, disk, matches>>

\* a line is typed at the prompt of search_player; the loop keeps nothing of
\* the lines before it, args counts them
Input ==
    \E line \in Lines :
        LET r == Choose(PlayerList(args.hits, 1), line)
        IN  /\ op = "input"
            /\ args.typed < MaxPrompts
            /\ op' = IF r = Awaiting THEN "input" ELSE "search_player"
            /\ args' = [args EXCEPT !.typed = @ + 1, !.line = line]
            /\ ret' = r
            /\ UNCHANGED <<feeds, stores, calls>>


\* utr_score.get_match_utr
ScoreGetMatchUtrCall ==
    \E player_id \in PlayerIds, resultDate \in MatchStamps, match_type \in MatchTypes :
        /\ op = "idle"
        /\ op' = "utr_score.get_match_utr"
        /\ args' = [player_id |-> player_id, resultDate |-> resultDate,
                    match_type |-> match_type, now |-> now]
        /\ ret' = ScoreGetMatchUtr(player_id, resultDate, match_type)
        /\ calls' = <<>>
        /\ UNCHANGED <<feeds, stores>>

Next ==
    \/ GetMatchUtrCall
    \/ PlayerIdLookupCall
    \/ GetPlayerUtrScoresCall
    \/ Return

----------------------------------------------------------------------------
(* Initial states: the stored feeds the operations are run against *)

\* no table has a row and nothing is on disk
EmptyStores ==
    /\ teams = <<>>
    /\ team_players = <<>>
    /\ disk = [dirs |-> {}, written |-> {}, torn |-> {}, players |-> {}]
    /\ matches = <<>>
    /\ authenticated = FALSE

Idle ==
    /\ op = "idle"
    /\ args = <<>>
    /\ ret = None
    /\ calls = <<>>
    /\ EmptyStores

OnlySubject(file, nothing) == [p \in PlayerIds |-> IF p = Subject THEN file ELSE nothing]

StatsOf(singles, doubles) ==
    OnlySubject([t \in MatchTypes |-> IF t = "singles" THEN singles ELSE doubles],
                [t \in MatchTypes |-> NoFile])

\* singles charts of every shape, one doubles chart
InitSingles ==
    /\ \E months \in SeqsUpTo(SinglesBuckets, MaxMonths) :
           stats = StatsOf(Chart(months), Chart(<<OneEntry(G(1))>>))
    /\ profile = OnlySubject(Profile(John, Smith), NoProfile)
    /\ results_df = OnlySubject(Table(<<SinglesRow, DoublesRow>>), NoResults)
    /\ now = [y |-> 2025, m |-> 3]
    /\ Idle

\* doubles charts: several entries of the usual shapes, or one entry of any shape
InitDoubles ==
    /\ \/ \E months \in SeqsUpTo(DoublesBuckets, MaxMonths) :
              /\ stats = StatsOf(Chart(<<SinglesBucket>>), Chart(months))
              /\ now = [y |-> 2025, m |-> 3]
       \/ \E e \in ShapeEntries :
              /\ stats = StatsOf(Chart(<<SinglesBucket>>), Chart(<<OneEntry(e)>>))
              /\ now = [y |-> 2025, m |-> 3]
       \/ \E e \in YearEntries, n \in Nows :
              /\ stats = StatsOf(Chart(<<SinglesBucket>>), Chart(<<OneEntry(e)>>))
              /\ now = n
    /\ profile = OnlySubject(Profile(John, Smith), NoProfile)
    /\ results_df = OnlySubject(Table(<<SinglesRow, DoublesRow>>), NoResults)
    /\ Idle

\* profiles of every kind, for both players
InitLookup ==
    /\ stats = StatsOf(Chart(<<SinglesBucket>>), Chart(<<OneEntry(G(1))>>))
    /\ profile \in [PlayerIds -> ProfilePool]
    /\ results_df = OnlySubject(Table(<<SinglesRow, DoublesRow>>), NoResults)
    /\ now = [y |-> 2025, m |-> 3]
    /\ Idle

\* stats files with and without a chart, for both formats
InitAbsent ==
    /\ \E s \in StatsPool, d \in StatsPool : stats = StatsOf(s, d)
    /\ profile = OnlySubject(Profile(John, Smith), NoProfile)
    /\ results_df = OnlySubject(Table(<<SinglesRow, DoublesRow>>), NoResults)
    /\ now = [y |-> 2025, m |-> 3]
    /\ Idle

\* results tables of every shape
InitScores ==
    /\ stats = StatsOf(Chart(<<SinglesBucket>>), Chart(<<OneEntry(G(1))>>))
    /\ profile = OnlySubject(Profile(John, Smith), NoProfile)
    /\ \E t \in {NoResults} \cup {Table(rows) : rows \in SeqsUpTo(RowPool, MaxRows)} :
           results_df = OnlySubject(t, NoResults)
    /\ now = [y |-> 2025, m |-> 3]
    /\ Idle

\* every outcome of the load, for both players
LoadOutcomes ==
    {NoResults, LoadRaises, Table(<<>>), Table(<<SinglesRow>>), Table(<<SinglesRow, DoublesRow>>)}

InitLoad ==
    /\ \E s \in {Chart(<<>>), Chart(<<SinglesBucket>>)} :
           stats = StatsOf(s, Chart(<<OneEntry(G(1))>>))
    /\ profile = OnlySubject(Profile(John, Smith), NoProfile)
    /\ results_df \in [PlayerIds -> LoadOutcomes]
    /\ now = [y |-> 2025, m |-> 3]
    /\ Idle

\* singles and doubles charts whose entries fall in several months, at every
\* processing date
InitClock ==
    /\ \E sm \in SeqsUpTo({Bucket(TRUE, <<"7.5">>, TRUE, <<SinglesEntry(ts)>>) :
                              ts \in {Stamp(2025, 3, 15, 10), Stamp(2024, 12, 15, 10)}}, MaxMonths),
          e \in YearEntries :
           stats = StatsOf(Chart(sm), Chart(<<OneEntry(e)>>))
    /\ now \in Nows
    /\ profile = OnlySubject(Profile(John, Smith), NoProfile)
    /\ results_df = OnlySubject(Table(<<SinglesRow, DoublesRow>>), NoResults)
    /\ Idle

\* fixed feeds and empty stores: the state the stores are built up from
InitStores ==
    /\ stats = StatsOf(Chart(<<SinglesBucket>>), Chart(<<OneEntry(G(1))>>))
    /\ profile = OnlySubject(Profile(John, Smith), NoProfile)
    /\ results_df = OnlySubject(Table(<<SinglesRow, DoublesRow>>), NoResults)
    /\ now = [y |-> 2025, m |-> 3]
    /\ Idle

Init == InitSingles \/ InitDoubles \/ InitLookup \/ InitAbsent \/ InitScores \/ InitLoad

Spec == Init /\ [][Next]_vars

SpecSingles == InitSingles /\ [][Next]_vars

SpecDoubles == InitDoubles /\ [][Next]_vars

SpecLookup == InitLookup /\ [][Next]_vars

SpecAbsent == InitAbsent /\ [][Next]_vars

SpecScores == InitScores /\ [][Next]_vars

SpecLoad == InitLoad /\ [][Next]_vars

NextAnalytics ==
    \/ EstimateCall
    \/ AggregateCall
    \/ Return

SpecAnalytics == InitStores /\ [][NextAnalytics]_vars

NextIngest ==
    \/ LoadPlayerMatchStatsCall
    \/ Return

SpecIngest == InitStores /\ [][NextIngest]_vars

\* ingestion of the files two players share, in any order and any number of times
NextShared ==
    \/ LoadSharedFileCall
    \/ Return

SpecShared == InitStores /\ [][NextShared]_vars

NextTeams ==
    \/ CreateTeamCall
    \/ GetTeamCall
    \/ AddPlayerToTeamCall
    \/ RemovePlayerFromTeamCall
    \/ Return

SpecTeams == InitStores /\ [][NextTeams]_vars

NextSaver ==
    \/ SavePlayerResultsCall
    \/ SavePlayerProfileCall
    \/ Return

SpecSaver == InitStores /\ [][NextSaver]_vars

NextExtract ==
    \/ ExtractResultsDataCall
    \/ Return

SpecExtract == InitStores /\ [][NextExtract]_vars

NextApi ==
    \/ AuthenticateCall
    \/ EnsureAuthenticatedCall
    \/ FetchCall
    \/ SearchPlayerCall
    \/ Input
    \/ Return

SpecApi == InitStores /\ [][NextApi]_vars

\* ---- doubles charts for the order of the scan ----

\* "Sat Feb 29 ...": a day the processing year 2025 does not have
LeapDay == Usual(2, 29, {1})

\* the usual entry of the match day with the subject at no, one or two positions
Placed == {Usual(3, 15, at) : at \in {a \in SUBSET (1..4) : Cardinality(a) <= 2}}

ScanBuckets ==
    {OneEntry(e) : e \in Placed \cup {LeapDay, NextDay, Undated}}
        \cup {Bucket(FALSE, <<>>, TRUE, <<LeapDay, G(1)>>),
              Bucket(FALSE, <<>>, TRUE, <<NextDay, G(2)>>),
              Bucket(FALSE, <<>>, FALSE, <<>>)}

InitScan ==
    /\ \E months \in SeqsUpTo(ScanBuckets, MaxMonths) :
           stats = StatsOf(Chart(<<SinglesBucket>>), Chart(months))
    /\ profile = OnlySubject(Profile(John, Smith), NoProfile)
    /\ results_df = OnlySubject(Table(<<SinglesRow, DoublesRow>>), NoResults)
    /\ now = [y |-> 2025, m |-> 3]
    /\ Idle

SpecScan == InitScan /\ [][Next]_vars


\* both locators over the same files: charts of every shape, files present or not
NextLocators ==
    \/ GetMatchUtrCall
    \/ ScoreGetMatchUtrCall
    \/ Return

SpecLocators == (InitSingles \/ InitDoubles \/ InitAbsent) /\ [][NextLocators]_vars

NextClock ==
    \/ GetMatchUtrCall
    \/ ClockAdvance
    \/ Return

SpecClock == InitClock /\ [][NextClock]_vars

----------------------------------------------------------------------------
(* Vocabulary of the properties *)

IsLocate(match_type) == op = "get_match_utr" /\ args.match_type = match_type

\* the stats file of the call's player and format
CallStats == stats[args.player_id][args.match_type]

\* positions <<bucket, result>> of the results entries of a chart
Positions(months) ==
    UNION {{<<j, i>> : i \in IF months[j].hasResults THEN 1..Len(months[j].results) ELSE {}}
              : j \in 1..Len(months)}

\* feed order: months first, then results
Before(p, q) == p[1] < q[1] \/ (p[1] = q[1] /\ p[2] < q[2])

Earliest(S) == CHOOSE p \in S : \A q \in S : p = q \/ Before(p, q)

EntryAt(months, p) == months[p[1]].results[p[2]]

----------------------------------------------------------------------------
(* C1 *)

DatedSingles(months, D) ==
    {p \in Positions(months) :
        WellFormed(EntryAt(months, p).resultDate) /\ DatePart(EntryAt(months, p).resultDate) = D}

\* the rating value of a bucket's ratings list, None when it has none
RatingValue(month) ==
    IF month.hasRatings /\ month.ratings # <<>> THEN month.ratings[1] ELSE None

\* C1 as claimed: a singles locate on a chart with a results entry dated D returns the
\* rating value of the bucket of the first such entry in feed order, and None when no
\* entry is dated D.
C1_FirstHitBucketRating ==
    (IsLocate("singles") /\ Usable(CallStats) /\ WellFormed(args.resultDate)) =>
        LET months == CallStats.months
            hits == DatedSingles(months, DatePart(args.resultDate))
        IN  ret = IF hits = {} THEN None ELSE RatingValue(months[Earliest(hits)[1]])

\* the entries at which the singles scan stops: one whose resultDate does not parse, or
\* one dated D in a bucket whose ratings list is missing or non-empty
StopsSingles(months, D) ==
    {p \in Positions(months) :
        \/ ~WellFormed(EntryAt(months, p).resultDate)
        \/ /\ DatePart(EntryAt(months, p).resultDate) = D
           /\ (~months[p[1]].hasRatings \/ months[p[1]].ratings # <<>>)}

\* C1 amended: a singles locate returns the first rating of the first bucket, in feed
\* order, that has a results entry dated D and a non-empty ratings list, entries dated D
\* in buckets with an empty ratings list being passed over; it returns None when there is
\* no such bucket, or when an entry with an unparseable resultDate or an entry dated D in
\* a bucket without a ratings list comes earlier in feed order.
C1_FirstRatedHit ==
    (IsLocate("singles") /\ Usable(CallStats) /\ WellFormed(args.resultDate)) =>
        LET months == CallStats.months
            stops == StopsSingles(months, DatePart(args.resultDate))
        IN  ret = IF stops = {} THEN None
                  ELSE LET p == Earliest(stops)
                       IN  IF WellFormed(EntryAt(months, p).resultDate)
                           THEN RatingValue(months[p[1]])
                           ELSE None

\* a tie: two buckets with different ratings both hold an entry dated D, the first wins
C1_Witness ==
    /\ IsLocate("singles")
    /\ Usable(CallStats)
    /\ WellFormed(args.resultDate)
    /\ LET months == CallStats.months
           hits == DatedSingles(months, DatePart(args.resultDate))
       IN  /\ Len(months) >= 2
           /\ \E p \in hits : p[1] = 1
           /\ \E p \in hits : p[1] = 2
           /\ RatingValue(months[1]) \notin {None, RatingValue(months[2])}
           /\ RatingValue(months[2]) # None
           /\ ret = RatingValue(months[1])

----------------------------------------------------------------------------
(* Vocabulary of the doubles properties *)

\* the structural parse of section 4.2: a leading date token, exactly two rating pairs
\* and exactly four names
WellShaped(details) ==
    /\ DateMatch(details)
    /\ Len(UtrMatches(details)) = 2
    /\ Len(NameMatches(details)) = 4

\* the year a year-less description is given: the processing year, the year before when
\* its month is later than the processing month
YearOf(month_num) == IF month_num <= now.m THEN now.y ELSE now.y - 1

Reconstructed(details) == Date(YearOf(details[2].m), details[2].m, details[3].d)

Resolves(player_id, name) == PlayerIdLookup(player_id, name) = player_id

\* the indices of the names of a description that resolve to the player
Named(player_id, details) ==
    {k \in DOMAIN NameMatches(details) : Resolves(player_id, NameMatches(details)[k])}

\* the four ratings of a well-shaped description, aligned with its four names
RatingAt(details, k) == UtrMatches(details)[(k + 1) \div 2][2 - (k % 2)]

\* a well-shaped description of the match date that names the player
Good(player_id, details, D) ==
    /\ WellShaped(details)
    /\ ValidDate(Reconstructed(details))
    /\ Reconstructed(details) = D
    /\ Named(player_id, details) # {}

\* a description the scan reads and passes over: it carries another date
OtherDay(details, D) ==
    /\ DateMatch(details)
    /\ UtrMatches(details) # <<>>
    /\ NameMatches(details) # <<>>
    /\ ValidDate(Reconstructed(details))
    /\ Reconstructed(details) # D

DoublesLocate == IsLocate("doubles") /\ Usable(CallStats) /\ WellFormed(args.resultDate)

----------------------------------------------------------------------------
(* C2 *)

\* C2 as claimed: a doubles locate skips entries that do not parse or do not name the
\* player, so the first entry in feed order that is well-shaped, carries the match date
\* and names the player decides the result, whatever comes before it.
C2_ScanContinuesAfterMiss ==
    DoublesLocate =>
        LET months == CallStats.months
            D == DatePart(args.resultDate)
            good == {p \in Positions(months) :
                        Good(args.player_id, EntryAt(months, p).details, D)}
        IN  good # {} =>
                LET details == EntryAt(months, Earliest(good)).details
                IN  \E k \in Named(args.player_id, details) : ret = RatingAt(details, k)

----------------------------------------------------------------------------
(* C3 *)

\* C3: when the scan reaches a well-shaped entry of the match date (every entry before
\* it carries another date) and exactly one of its four names resolves to the player,
\* the locate returns the rating at that name's position.
C3_PositionalAttribution ==
    DoublesLocate =>
        LET months == CallStats.months
            D == DatePart(args.resultDate)
        IN  \A p \in Positions(months) :
                LET details == EntryAt(months, p).details
                IN  (/\ Good(args.player_id, details, D)
                     /\ \A q \in Positions(months) :
                            Before(q, p) => OtherDay(EntryAt(months, q).details, D))
                    => \A k \in Named(args.player_id, details) :
                           Named(args.player_id, details) = {k} => ret = RatingAt(details, k)

\* the player is the fourth name of an entry reached after another day's entry
C3_Witness ==
    /\ DoublesLocate
    /\ LET months == CallStats.months
           D == DatePart(args.resultDate)
       IN  \E p, q \in Positions(months) :
               /\ Before(q, p)
               /\ OtherDay(EntryAt(months, q).details, D)
               /\ Good(args.player_id, EntryAt(months, p).details, D)
               /\ Named(args.player_id, EntryAt(months, p).details) = {4}
               /\ ret = UtrMatches(EntryAt(months, p).details)[2][2]
               /\ ret = "8.5"

----------------------------------------------------------------------------
(* C4 *)

\* C4 as claimed: a doubles locate returns a rating only out of a description that has
\* the date token, exactly two rating pairs and exactly four names.
C4_AtomicParse ==
    (DoublesLocate /\ ret # None) =>
        \E p \in Positions(CallStats.months) :
            LET details == EntryAt(CallStats.months, p).details
            IN  /\ WellShaped(details)
                /\ \E k \in 1..4 : ret = RatingAt(details, k)

----------------------------------------------------------------------------
(* C5 *)

\* C5: on a chart of one well-shaped entry naming the player first, the locate returns
\* that entry's first rating exactly when the match date is the description's day and
\* month in the processing year (month not after the processing month) or in the year
\* before (month after it); otherwise it returns None.
C5_YearInference ==
    DoublesLocate =>
        LET months == CallStats.months
        IN  \A p \in Positions(months) :
                LET details == EntryAt(months, p).details
                    m == details[2].m
                    expected == Date(IF m <= now.m THEN now.y ELSE now.y - 1, m, details[3].d)
                IN  (/\ Positions(months) = {p}
                     /\ WellShaped(details)
                     /\ 1 \in Named(args.player_id, details)
                     /\ ValidDate(expected))
                    => /\ (DatePart(args.resultDate) = expected) <=> (ret = RatingAt(details, 1))
                       /\ (DatePart(args.resultDate) # expected) => ret = None

\* Dec processed in Mar is located in the previous year
C5_Witness ==
    /\ DoublesLocate
    /\ now.m = 3
    /\ args.resultDate.y = now.y - 1
    /\ \E p \in Positions(CallStats.months) :
           LET details == EntryAt(CallStats.months, p).details
           IN  /\ Positions(CallStats.months) = {p}
               /\ WellShaped(details)
               /\ details[2].m = 12
               /\ ret = RatingAt(details, 1)

----------------------------------------------------------------------------
(* C6 *)

\* C6: player_id_lookup returns the candidate id exactly when the candidate's profile
\* loads, has a first and a last name, and first initial + "." + last name is the given
\* short name, character for character; otherwise it returns None; no exception escapes.
C6_IdentityResolution ==
    op = "player_id_lookup" =>
        LET pr == profile[args.player_id]
            formed == pr.exists /\ pr.hasNames /\ pr.firstName # <<>>
            same == /\ Len(args.player_name) = Len(pr.lastName) + 2
                    /\ args.player_name[1] = pr.firstName[1]
                    /\ args.player_name[2] = "."
                    /\ \A k \in 1..Len(pr.lastName) : args.player_name[k + 2] = pr.lastName[k]
        IN  ret = IF formed /\ same THEN args.player_id ELSE None

\* a name resolved, and a name that differs only in case refused
C6_Witness ==
    /\ op = "player_id_lookup"
    /\ ret = args.player_id
    /\ profile[args.player_id].firstName # <<>>
    /\ \E q \in PlayerIds :
           /\ profile[q].exists /\ profile[q].hasNames /\ profile[q].firstName # <<>>
           /\ profile[q].lastName = profile[args.player_id].lastName
           /\ profile[q].firstName[1] # profile[args.player_id].firstName[1]
           /\ PlayerIdLookup(q, args.player_name) = None

----------------------------------------------------------------------------
(* Vocabulary of the reconciliation-run properties *)

IsScores == op = "get_player_utr_scores"

RunRows == results_df[args.player_id].rows

\* doubles when a second winner is present, singles otherwise
FormatOf(players) ==
    IF players.hasWinner2 /\ players.winner2 # None THEN "doubles" ELSE "singles"

\* the rating a locate finds for a row
Located(player_id, row) == GetMatchUtr(player_id, row.date, FormatOf(row.players))

----------------------------------------------------------------------------
(* C7 *)

\* C7 as claimed: whatever the other rows are, every row with a complete players record
\* whose rating can be located has an entry in the mapping the run returns.
C7_NoRowIsFatal ==
    IsScores =>
        \A i \in DOMAIN RunRows :
            (RunRows[i].players.hasWinner2 /\ Located(args.player_id, RunRows[i]) # None)
                => /\ ret.kind = "dict"
                   /\ RunRows[i].event_id \in DOMAIN ret.match_utrs

----------------------------------------------------------------------------
(* C8 *)

\* C8 as claimed: the run returns a mapping that holds, for every row whose rating is
\* located, that row's rating and date under the row's identifier, and nothing under the
\* identifier of a row whose rating is None (unless another row of that identifier is
\* located).
C8_PerMatchMapping ==
    IsScores =>
        /\ ret.kind = "dict"
        /\ \A i \in DOMAIN RunRows :
               LET utr == Located(args.player_id, RunRows[i])
               IN  IF utr # None
                   THEN /\ RunRows[i].event_id \in DOMAIN ret.match_utrs
                        /\ ret.match_utrs[RunRows[i].event_id]
                               = [utr |-> utr, date |-> RunRows[i].date]
                   ELSE \A j \in DOMAIN RunRows :
                            RunRows[j].event_id = RunRows[i].event_id
                                => Located(args.player_id, RunRows[j]) # None
                                   \/ RunRows[i].event_id \notin DOMAIN ret.match_utrs

----------------------------------------------------------------------------
(* C9 *)

\* C9 as claimed: the run calls get_match_utr once for every row, in row order, with the
\* row's date and event name and the format doubles exactly when winner2 is non-null.
C9_ClassifyAndCallInOrder ==
    IsScores =>
        calls = [i \in DOMAIN RunRows |->
                    [player_id |-> args.player_id, resultDate |-> RunRows[i].date,
                     details |-> RunRows[i].event_name,
                     match_type |-> FormatOf(RunRows[i].players)]]

----------------------------------------------------------------------------
(* C10 *)

\* C10: a locate, singles or doubles, returns None when the stats file of the format
\* cannot be loaded, has no ratingTrendChart, or has no months or an empty months list.
C10_AbsentChartNotFound ==
    (op = "get_match_utr" /\ ~Usable(CallStats)) => ret = None

\* the doubles stats have no months while the singles stats hold an entry of the match
\* date that names the player
C10_Witness ==
    /\ IsLocate("doubles")
    /\ CallStats.exists
    /\ ~CallStats.hasMonths
    /\ WellFormed(args.resultDate)
    /\ Usable(stats[args.player_id]["singles"])
    /\ \E p \in Positions(stats[args.player_id]["singles"].months) :
           Good(args.player_id,
                EntryAt(stats[args.player_id]["singles"].months, p).details,
                DatePart(args.resultDate))
    /\ ret = None

----------------------------------------------------------------------------
(* C11 *)

LoadOutcome == results_df[args.player_id]

\* C11: when load_player_results returns None or an empty table the run returns the
\* empty mapping, when it raises the run returns None, and in neither case is
\* get_match_utr called.
C11_OutcomeByLoadResult ==
    IsScores =>
        /\ (~LoadOutcome.raises /\ (~LoadOutcome.exists \/ LoadOutcome.rows = <<>>))
               => (ret = [kind |-> "dict", match_utrs |-> <<>>] /\ calls = <<>>)
        /\ LoadOutcome.raises
               => (ret.kind = "None" /\ calls = <<>>)

\* the load of one player returns None and the run gives {}, while the other player's
\* load would raise
C11_Witness ==
    /\ IsScores
    /\ LoadOutcome = NoResults
    /\ ret = [kind |-> "dict", match_utrs |-> <<>>]
    /\ calls = <<>>
    /\ \E q \in PlayerIds : results_df[q].raises /\ GetPlayerUtrScores(q).kind = "None"

----------------------------------------------------------------------------
(* C12 *)

\* the result of invoking the returned locate once more, now
Again == GetMatchUtr(args.player_id, args.resultDate, args.match_type)

----------------------------------------------------------------------------
(* C13 *)

Step(rec) == IF rec.win THEN Adjustment ELSE -Adjustment

\* C13: on a non-empty sequence sorted most recent first the first record's
\* estimate is its unmasked rating and every later record's estimate is the
\* estimate of the record before it plus 0.02 when that record's masked outcome
\* was a win and minus 0.02 when it was a loss, so that neighbouring estimates
\* differ by exactly 0.02; the records are otherwise returned as given, and an
\* empty sequence is returned as it is.
C13_EstimatorRecurrence ==
    op = "estimate" =>
        LET recs == args.shiftRecords
        IN  /\ Len(ret) = Len(recs)
            /\ recs # <<>> => ret[1].estimatedRating = recs[1].unmasked
            /\ \A i \in 2..Len(recs) :
                   /\ ret[i].estimatedRating
                          = ret[i - 1].estimatedRating + Step(recs[i - 1])
                   /\ ret[i].estimatedRating - ret[i - 1].estimatedRating
                          \in {Adjustment, -Adjustment}
            /\ \A i \in 1..Len(recs) :
                   /\ ret[i].win = recs[i].win
                   /\ ret[i].hasUnmasked = recs[i].hasUnmasked
                   /\ ret[i].unmasked = recs[i].unmasked

\* three records, the most recent one a win at 8.00 and the second a loss:
\* the estimates are 8.00, 8.02, 8.00
C13_Witness ==
    /\ op = "estimate"
    /\ Len(args.shiftRecords) = 3
    /\ args.shiftRecords[1] = ShiftRecord(TRUE, TRUE, 800)
    /\ ~args.shiftRecords[2].win
    /\ ret[1].estimatedRating = 800
    /\ ret[2].estimatedRating = 802
    /\ ret[3].estimatedRating = 800

----------------------------------------------------------------------------
(* C14 *)

\* the observations of the call, most recent first
Observations ==
    IF args.mostRecentFirst THEN args.ratings
    ELSE [k \in 1..Len(args.ratings) |-> args.ratings[Len(args.ratings) + 1 - k]]

WeightSum(n) == SumTo([k \in 1..n |-> Weight(k, n)], n)

WeightedSum(obs) == SumTo([k \in 1..Len(obs) |-> obs[k] * Weight(k, Len(obs))], Len(obs))

\* C14: aggregate returns no value for an empty sequence; otherwise it returns
\* the hundredth nearest to sum(r_i * 0.95^i) / sum(0.95^i), i counted from 0 at
\* the most recent observation, which lies between the least and the greatest
\* rating given, and each weight is 0.95 times the weight before it, the most
\* recent observation weighing most.
C14_WeightedAggregate ==
    op = "aggregate" =>
        IF args.ratings = <<>> THEN ret = None
        ELSE LET obs == Observations
                 n == Len(obs)
                 diff == ret * WeightSum(n) - WeightedSum(obs)
             IN  /\ 2 * diff <= WeightSum(n)
                 /\ -2 * diff <= WeightSum(n)
                 /\ \E j \in 1..n : obs[j] <= ret
                 /\ \E j \in 1..n : obs[j] >= ret
                 /\ \A k \in 1..(n - 1) :
                        /\ DecayDen * Weight(k + 1, n) = DecayNum * Weight(k, n)
                        /\ Weight(1, n) > Weight(k + 1, n)
                 /\ Weight(1, n) > 0

\* the ratings 8.00, 9.00, 10.00 given oldest first aggregate to 9.03
C14_Witness ==
    /\ op = "aggregate"
    /\ args.ratings = <<800, 900, 1000>>
    /\ ~args.mostRecentFirst
    /\ ret = 903

----------------------------------------------------------------------------
(* C15 *)

\* the ingestion that has just returned, as a step
Ingests == op = "idle" /\ op' = "load_player_match_stats" /\ args'.file.kind = "json"

\* a result the ingestion keeps for the player: complete, with the player on a side
Kept(player_id, result) ==
    /\ result.hasPlayers /\ result.hasWinner /\ result.hasLoser /\ result.id # None
    /\ \/ player_id \in {result.players.winner1, result.players.loser1}
       \/ /\ result.teamType = "DOUBLES"
          /\ player_id \in {result.players.winner2, result.players.loser2}

\* nothing but a missing score structure is unusual about the results of the file
OnlyScoresMissing(results) ==
    \A k \in DOMAIN results :
        /\ results[k].score.kind = "sets" => \A j \in DOMAIN results[k].score.sets :
                                                  results[k].score.sets[j] # <<>>
        /\ results[k].teamType = "DOUBLES"
               => Null \notin {results[k].players.winner1, results[k].players.winner2,
                               results[k].players.loser1, results[k].players.loser2}

\* C15 as claimed: in a file whose results are regular but for missing score
\* structures, every result kept for the player leaves a row of its id in table
\* matches, with an empty score when the result has no score structure: a
\* missing score stops neither that match nor the matches after it.
C15_MissingScoreTolerated ==
    [][Ingests =>
          LET results == args'.file.results
          IN  OnlyScoresMissing(results) =>
                  \A k \in DOMAIN results :
                      Kept(args'.player_id, results[k]) =>
                          \E r \in DOMAIN matches' :
                              /\ matches'[r].match_id = results[k].id
                              /\ (/\ results[k].score.kind # "sets"
                                  /\ \A q \in DOMAIN matches :
                                         matches[q].match_id # results[k].id
                                  /\ \A j \in 1..(k - 1) : results[j].id # results[k].id)
                                     => matches'[r].score = <<>>]_vars

----------------------------------------------------------------------------
(* C16 *)

HasTeam(table, team_number) == \E k \in DOMAIN table : table[k].team_number = team_number

\* C16: no two rows of table teams carry the same team_number and a stored row
\* never changes; create_team with a new number stores a row of its attributes,
\* with a used number it stores nothing, and either way it returns a Team object
\* of its arguments without raising.
C16_FirstCreationWins ==
    /\ [](\A j, k \in DOMAIN teams : teams[j].team_number = teams[k].team_number => j = k)
    /\ [][\A k \in DOMAIN teams : k \in DOMAIN teams' /\ teams'[k] = teams[k]]_vars
    /\ [][(op = "idle" /\ op' = "create_team") =>
              /\ ret' = Team(args'.team_number, args'.attrs, <<>>)
              /\ HasTeam(teams', args'.team_number)
              /\ Len(teams') = Len(teams) + (IF HasTeam(teams, args'.team_number) THEN 0 ELSE 1)
              /\ ~HasTeam(teams, args'.team_number)
                     => teams'[Len(teams')] = [team_number |-> args'.team_number,
                                               attrs |-> args'.attrs]]_vars

\* create_team has returned a Team of other attributes than the row its number
\* has had since the first creation
C16_Witness ==
    /\ op = "create_team"
    /\ Len(teams) = 2
    /\ \E k \in DOMAIN teams :
           /\ teams[k].team_number = args.team_number
           /\ teams[k].attrs # args.attrs
    /\ ret.attrs = args.attrs

----------------------------------------------------------------------------
(* Vocabulary of the roster properties *)

OnRoster(table, team_number, player_id) ==
    \E k \in DOMAIN table :
        table[k].team_number = team_number /\ table[k].player_id = player_id

In(seq, x) == \E k \in DOMAIN seq : seq[k] = x

NoRepeat(seq) == \A j, k \in DOMAIN seq : seq[j] = seq[k] => j = k

Adds == op = "idle" /\ op' = "add_player_to_team"

Removes == op = "idle" /\ op' = "remove_player_from_team"

----------------------------------------------------------------------------
(* C17 *)

\* C17: table team_players never holds two rows of the same team and player, the
\* roster get_team returns for a team names no player twice, and adding a player
\* who is on the team already returns without raising and leaves the table as it
\* was.
C17_RosterHasNoDuplicates ==
    /\ [](/\ NoRepeat(team_players)
          /\ \A t \in TeamNumbers : HasTeam(teams, t) => NoRepeat(GetTeam(t).players))
    /\ [][(Adds /\ OnRoster(team_players, args'.team_number, args'.player_id))
              => (team_players' = team_players /\ ret' = None)]_vars

\* add_player_to_team has returned for a player whose row is not the last of the
\* table: the player was on the team before the call
C17_Witness ==
    /\ op = "add_player_to_team"
    /\ HasTeam(teams, args.team_number)
    /\ Len(team_players) >= 2
    /\ team_players[1] = [team_number |-> args.team_number, player_id |-> args.player_id]
    /\ GetTeam(args.team_number).players # <<>>

----------------------------------------------------------------------------
(* C18 *)

\* C18: for a team t of table teams, get_team(t).players contains p after
\* add_player_to_team(t, p) and does not contain p after
\* remove_player_from_team(t, p); either call leaves every other player of t and
\* the roster of every other team as they were, and removing a player who is not
\* on the team leaves table team_players as it was.
C18_RosterRoundTripAndFrame ==
    /\ [][\A t \in TeamNumbers, p \in PlayerIds :
              (HasTeam(teams, t) /\ args' = [team_number |-> t, player_id |-> p])
                  => /\ Adds => In(GetTeam(t).players, p)'
                     /\ Removes => ~In(GetTeam(t).players, p)']_vars
    /\ [][(Adds \/ Removes) =>
              \A t \in TeamNumbers, q \in PlayerIds :
                  (HasTeam(teams, t) /\ <<t, q>> # <<args'.team_number, args'.player_id>>)
                      => (In(GetTeam(t).players, q) <=> In(GetTeam(t).players, q)')]_vars
    /\ [][(Removes /\ ~OnRoster(team_players, args'.team_number, args'.player_id))
              => team_players' = team_players]_vars

\* a player has been removed from one of two teams: the other team still lists
\* the player and the team still lists its other player
C18_Witness ==
    /\ op = "remove_player_from_team"
    /\ \A t \in TeamNumbers : HasTeam(teams, t)
    /\ ~In(GetTeam(args.team_number).players, args.player_id)
    /\ GetTeam(args.team_number).players # <<>>
    /\ \E t \in TeamNumbers \ {args.team_number} : In(GetTeam(t).players, args.player_id)

----------------------------------------------------------------------------
(* Data saver claims *)

\* the save in the current state is a save_player_results whose extraction
\* gave a table
SavesResults == op = "save_player_results" /\ ~args.extracted.raises

\* the table extracted is empty or has no 'date' column
FailsValidation ==
    \/ args.extracted.df.nrows = 0
    \/ args.extracted.df.columns = {}
    \/ "date" \notin args.extracted.df.columns

\* the save took the step of that name on that directory, file or id
Attempted(name, target) ==
    \E i \in 1..Len(calls) : calls[i][1] = name /\ calls[i][2] = target

ParquetFile(what) == FilePath(DATA_DIR, args.player_id, what, "parquet")

JsonFile(what) == FilePath(RAW_DIR, args.player_id, what, "json")

\* C19: a save_player_results whose extracted table is empty or lacks a 'date'
\* column takes no step at all: it creates no directory, writes neither the
\* Parquet file nor the raw JSON file, and leaves the disk as it was.
C19_NothingPersistedOnInvalid ==
    [][(op = "idle" /\ op' = "save_player_results" /\ (SavesResults /\ FailsValidation)')
        => (disk' = disk /\ calls' = <<>> /\ ret' = None)]_vars

\* records without a date, every write able to succeed, and nothing done
C19_Witness ==
    /\ SavesResults
    /\ args.extracted.df = Frame({"match"}, 2)
    /\ args.env.data_dir = "ok" /\ args.env.parquet = "ok"
    /\ args.env.raw_dir = "ok" /\ args.env.json = "ok"
    /\ calls = <<>>
    /\ disk.dirs = {} /\ disk.written = {} /\ disk.torn = {}

\* the save in the current state ran both persistence steps on what it was given
SavesBoth(what) ==
    \/ what = "results" /\ SavesResults /\ ~FailsValidation
    \/ what = "profile" /\ op = "save_player_profile"

ParquetFailed == args.env.data_dir = Raised \/ args.env.parquet # "ok"

JsonFailed == args.env.raw_dir = Raised \/ args.env.json # "ok"

\* C20: in save_player_results on data that passes validation, and in
\* save_player_profile, a failed Parquet step is followed by the JSON step all
\* the same (its directory is asked for and, once there, the file is dumped
\* and, if the dump succeeds, is on disk); a failed JSON step leaves a Parquet
\* file that was written on disk; and the call raises for neither failure: it
\* raises only when the directory of the players table cannot be made.
C20_IndependentSteps ==
    \A what \in {"results", "profile"} :
        SavesBoth(what) =>
            /\ ParquetFailed =>
                  /\ Attempted("makedirs", RAW_DIR)
                  /\ args.env.raw_dir = "ok" => Attempted("json.dump", JsonFile(what))
                  /\ ~JsonFailed => JsonFile(what) \in disk.written
            /\ JsonFailed =>
                  /\ Attempted("makedirs", DATA_DIR)
                  /\ args.env.data_dir = "ok" => Attempted("to_parquet", ParquetFile(what))
                  /\ ~ParquetFailed => ParquetFile(what) \in disk.written
            /\ ret = Raised => (what = "profile" /\ args.env.db_dir = Raised)

\* the Parquet write of valid results left a torn file, the JSON file was
\* written after it and the caller got None
C20_Witness ==
    /\ SavesBoth("results")
    /\ args.env.data_dir = "ok" /\ args.env.parquet = "torn"
    /\ ParquetFile("results") \in disk.torn
    /\ ~JsonFailed
    /\ JsonFile("results") \in disk.written
    /\ ret = None

----------------------------------------------------------------------------
(* Results extraction claims *)

Extracts == op = "_extract_results_data"

EventsOf == args.results.events.items

DrawsOf(i) == EventsOf[i].draws.items

ResultsOf(i, j) == DrawsOf(i)[j].results.items

\* no list of the feed is null: every list can be walked
Walkable ==
    /\ args.results.events.kind # Null
    /\ \A i \in DOMAIN EventsOf :
          /\ EventsOf[i].draws.kind # Null
          /\ \A j \in DOMAIN DrawsOf(i) : DrawsOf(i)[j].results.kind # Null

\* the places <<event, draw, result>> of the results of the feed
Places ==
    UNION {UNION {{<<i, j, k>> : k \in DOMAIN ResultsOf(i, j)} : j \in DOMAIN DrawsOf(i)} :
           i \in DOMAIN EventsOf}

\* feed order: events, then draws, then results
Sooner(u, t) ==
    \/ u[1] < t[1]
    \/ u[1] = t[1] /\ u[2] < t[2]
    \/ u[1] = t[1] /\ u[2] = t[2] /\ u[3] < t[3]

Rank(t) == Cardinality({u \in Places : Sooner(u, t)}) + 1

RecordOf(t) == ret.records[Rank(t)]

\* a plain field of the feed as the record carries it: None when it is missing
CarriedPlain(given, carried) ==
    /\ given = Absent => carried = None
    /\ given \notin {Absent, Null} => carried = given

\* one record per result, in feed order, with the fields of its event and draw
FlattenedInOrder ==
    /\ ret.kind = "ok"
    /\ Len(ret.records) = Cardinality(Places)
    /\ \A t \in Places :
          LET event == EventsOf[t[1]]
              draw == DrawsOf(t[1])[t[2]]
              result == ResultsOf(t[1], t[2])[t[3]]
          IN  /\ CarriedPlain(event.id, RecordOf(t).event_id)
              /\ CarriedPlain(event.name, RecordOf(t).event_name)
              /\ CarriedPlain(draw.id, RecordOf(t).draw_id)
              /\ CarriedPlain(draw.name, RecordOf(t).draw_name)
              /\ CarriedPlain(result.id, RecordOf(t).result_id)
              /\ CarriedPlain(result.date, RecordOf(t).date)
              /\ CarriedPlain(result.teamType, RecordOf(t).teamType)
              /\ CarriedPlain(result.sportTypeId, RecordOf(t).sportTypeId)
              /\ CarriedPlain(result.sourceType, RecordOf(t).sourceType)
              /\ CarriedPlain(result.completionType, RecordOf(t).completionType)
              /\ CarriedPlain(result.outcome, RecordOf(t).outcome)
              /\ CarriedPlain(result.finalized, RecordOf(t).finalized)
              /\ result.players.kind = "object" => RecordOf(t).players = Text(result.players)
              /\ result.score.kind = "object" => RecordOf(t).score = Text(result.score)

\* what the records hold for the players and the score of a result without them
MissingStructures(held) ==
    \A t \in Places :
        LET result == ResultsOf(t[1], t[2])[t[3]]
        IN  /\ result.players.kind = Absent => RecordOf(t).players = held
            /\ result.score.kind = Absent => RecordOf(t).score = held

\* C21 as stated: one record per result of the feed, in feed order, carrying
\* the id and name of its event and draw, nothing for an event without draws
\* or a draw without results, and None for every field the feed does not carry,
\* the players and the score among them.
C21_FlattenMissingIsNone ==
    (Extracts /\ Walkable) => (FlattenedInOrder /\ MissingStructures(PyNone))

\* C21 amended: one record per result of the feed, in feed order, carrying the
\* id and name of its event and draw, nothing for an event without draws or a
\* draw without results, None for every plain field the feed does not carry,
\* and the text of an empty object for players or a score it does not carry.
C21_Flatten ==
    (Extracts /\ Walkable) => (FlattenedInOrder /\ MissingStructures(Text(Object(<<>>))))

\* an event with two draws of results and an event without draws gave three
\* records, one of a result without players
C21_Witness ==
    /\ Extracts /\ Walkable
    /\ Len(EventsOf) = 2
    /\ Len(DrawsOf(1)) = 2
    /\ EventsOf[2].draws.kind = Absent
    /\ Len(ResultsOf(1, 1)) = 1 /\ Len(ResultsOf(1, 2)) = 2
    /\ ResultsOf(1, 2)[1].players.kind = Absent
    /\ Len(ret.records) = 3
    /\ ret.records[2].result_id = "r2"
    /\ ret.records[2].players = Text(Object(<<>>))
    /\ ret.records[2].teamType = None

----------------------------------------------------------------------------
(* API client claims *)

\* the operation sent that request
Sent(method, url) == \E k \in DOMAIN calls : calls[k] = Request(method, url)

FetchOps == {"get_player_profile", "get_player_results", "get_player_stats"}

\* C22: an _authenticate whose login request succeeds returns True and leaves
\* authenticated = True, and one whose login request fails, by a bad status or
\* a connection error, returns False and leaves authenticated = False, whatever
\* calls of _authenticate came before.
C22_FlagTracksLogin ==
    (op = "_authenticate" /\ Sent("POST", auth_url)) =>
        /\ args.login = "ok" => (ret = True /\ authenticated)
        /\ args.login # "ok" => (ret = False /\ ~authenticated)

\* C23: with authenticated false, _ensure_authenticated sends a login request
\* and returns whether it succeeded, and a fetch or a search sends its GET only
\* if the session was authenticated or has been by then, and otherwise returns
\* None without the GET.
C23_FetchesGated ==
    /\ (op = "_ensure_authenticated" /\ ~args.authenticated) =>
           (Sent("POST", auth_url) /\ ret \in {True, False})
    /\ (op \in FetchOps \cup {"search_player", "input"} /\ ~args.authenticated) =>
           /\ Sent("POST", auth_url)
           /\ ~authenticated => ~Sent("GET", args.url)
    /\ (op \in FetchOps /\ ~args.authenticated /\ ~authenticated) => ret = None

\* the search got its answer and is at a prompt or has returned
Searched == op \in {"search_player", "input"} /\ args.outcome = "ok"

\* the places of the hits that have a source, in the order they are listed
Listing == {i \in DOMAIN args.hits : HasSource(args.hits[i].source)}

\* the k-th listed player
Kth(k) ==
    Player(args.hits[CHOOSE i \in Listing : Cardinality({j \in Listing : j <= i}) = k].source)

\* a line that ends the prompting: empty, 0, or a number of the list
Valid(line) ==
    \/ Strip(line) = <<>>
    \/ IntOf(Strip(line)).ok /\ IntOf(Strip(line)).value \in 0..Cardinality(Listing)

\* C24: a search without a usable hit returns None and one with a single
\* usable hit returns that player, both without a prompt; with more, the search
\* prompts, and after a line it is still prompting unless the line is valid:
\* empty returns the first player, 0 returns None, k in 1..n the k-th listed
\* player; an invalid line selects nobody.
C24_Selection ==
    Searched =>
        LET n == Cardinality(Listing)
            typed == args.typed
        IN  /\ n = 0 => (op = "search_player" /\ ret = NotFound /\ typed = 0)
            /\ n = 1 => (op = "search_player" /\ ret = Found(Kth(1)) /\ typed = 0)
            /\ n > 1 =>
                  /\ typed = 0 => (op = "input" /\ ret = Awaiting)
                  /\ typed > 0 =>
                        LET line == Strip(args.line)
                        IN  /\ ~Valid(line) => (op = "input" /\ ret = Awaiting)
                            /\ line = <<>> => (op = "search_player" /\ ret = Found(Kth(1)))
                            /\ (Valid(line) /\ line # <<>> /\ IntOf(line).value = 0) =>
                                  (op = "search_player" /\ ret = NotFound)
                            /\ (Valid(line) /\ line # <<>> /\ IntOf(line).value > 0) =>
                                  (op = "search_player" /\ ret = Found(Kth(IntOf(line).value)))

\* of three hits the second has no source; a first line was refused, then 2
\* between blanks was typed and the second listed player, the third hit, returned
C24_Witness ==
    /\ Searched /\ op = "search_player"
    /\ Len(args.hits) = 3
    /\ Listing = {1, 3}
    /\ args.typed = 2 /\ args.line = <<" ", "2", " ">>
    /\ ret = Found(Player(args.hits[3].source))
    /\ ret.player.id # Player(args.hits[1].source).id

----------------------------------------------------------------------------
(* Order of the doubles scan *)

\* the structural check of the doubles branch: a date token, a rating pair, a name
Structural(details) ==
    DateMatch(details) /\ UtrMatches(details) # <<>> /\ NameMatches(details) # <<>>

\* the entry carries the match date
OfTheDay(details, D) == Structural(details) /\ Reconstructed(details) = D

\* the first four names of the entry that resolve to the player
NamedInFour(player_id, details) == Named(player_id, details) \cap (1..4)

\* what an entry of the match day gives: None when the player is none of its
\* four names, else the rating at the first of the player's positions
GivenBy(player_id, details) ==
    IF NamedInFour(player_id, details) = {} THEN None
    ELSE RatingAt(details, CHOOSE k \in NamedInFour(player_id, details) :
                               \A j \in NamedInFour(player_id, details) : k <= j)

\* C25: a doubles locate is decided by the first entry, in feed order, that
\* fails the structural check or carries the match date: it returns None at
\* the former and that entry's rating or None at the latter, whatever follows,
\* every entry before it having been skipped as one of another date; with no
\* such entry it returns None.
C25_FirstDecisiveEntry ==
    DoublesLocate =>
        LET months == CallStats.months
            D == DatePart(args.resultDate)
            decisive == {p \in Positions(months) :
                            \/ ~Structural(EntryAt(months, p).details)
                            \/ OfTheDay(EntryAt(months, p).details, D)}
        IN  /\ decisive = {} => ret = None
            /\ decisive # {} =>
                  LET details == EntryAt(months, Earliest(decisive)).details
                  IN  /\ ~Structural(details) => ret = None
                      /\ (Structural(details) /\ WellShaped(details)) =>
                             ret = GivenBy(args.player_id, details)

\* the entry of the match day the scan reaches: every entry before it carries
\* another date that exists
Reached(months, p, D) ==
    /\ WellShaped(EntryAt(months, p).details)
    /\ OfTheDay(EntryAt(months, p).details, D)
    /\ \A q \in Positions(months) : Before(q, p) => OtherDay(EntryAt(months, q).details, D)

\* C26: at the entry of the match day the scan reaches, the rating returned is
\* team A's when the player's short name is one of team A's names (position 1
\* if name 1 matches, else position 2), also when it is one of team B's names
\* too; team B's rating (position 3 if name 3 matches, else position 4) is
\* returned only when neither name of team A matches.
C26_TeamAFirst ==
    DoublesLocate =>
        LET months == CallStats.months
            D == DatePart(args.resultDate)
        IN  \A p \in Positions(months) :
                Reached(months, p, D) =>
                    LET details == EntryAt(months, p).details
                        at == NamedInFour(args.player_id, details)
                    IN  /\ 1 \in at => ret = RatingAt(details, 1)
                        /\ (1 \notin at /\ 2 \in at) => ret = RatingAt(details, 2)
                        /\ (at \cap {1, 2} = {} /\ 3 \in at) => ret = RatingAt(details, 3)
                        /\ at = {4} => ret = RatingAt(details, 4)
                        /\ (ret \in {RatingAt(details, 3), RatingAt(details, 4)}) =>
                               at \cap {1, 2} = {}

\* the player's short name is the second and the third name of the entry
\* reached, after an entry of the next day, and the second rating is returned
C26_Witness ==
    /\ DoublesLocate
    /\ LET months == CallStats.months
           D == DatePart(args.resultDate)
       IN  \E p, q \in Positions(months) :
               /\ Before(q, p)
               /\ Reached(months, p, D)
               /\ NamedInFour(args.player_id, EntryAt(months, p).details) = {2, 3}
               /\ ret = UtrMatches(EntryAt(months, p).details)[1][2]
               /\ ret = "9.8"

----------------------------------------------------------------------------
(* C27 *)

\* the rows of the run for which a rating is located
LocatedRows == {i \in DOMAIN RunRows : Located(args.player_id, RunRows[i]) # None}

\* the last of them, in row order, of an event
LastLocated(event_id) ==
    CHOOSE i \in LocatedRows :
        /\ RunRows[i].event_id = event_id
        /\ \A j \in LocatedRows : RunRows[j].event_id = event_id => j <= i

\* C27: the mapping a run returns has one entry for each event id that has a
\* located row and no other entry, and the entry of an event id holds the
\* rating and the date of the last row of that event, in row order, for which
\* a rating was located: earlier located rows of the event are overwritten and
\* a later row of the event without a rating changes nothing.
C27_KeyedByEventLastWins ==
    (IsScores /\ ret.kind = "dict") =>
        /\ DOMAIN ret.match_utrs = {RunRows[i].event_id : i \in LocatedRows}
        /\ \A event_id \in DOMAIN ret.match_utrs :
               ret.match_utrs[event_id]
                   = [utr |-> Located(args.player_id, RunRows[LastLocated(event_id)]),
                      date |-> RunRows[LastLocated(event_id)].date]

\* two located rows of one event, a singles one and then a doubles one: the
\* mapping holds the doubles rating and date alone
C27_Witness ==
    /\ IsScores /\ ret.kind = "dict"
    /\ Len(RunRows) = 2
    /\ RunRows[1].event_id = "e1" /\ RunRows[2].event_id = "e1"
    /\ LocatedRows = {1, 2}
    /\ Located(args.player_id, RunRows[1]) = "7.5"
    /\ DOMAIN ret.match_utrs = {"e1"}
    /\ ret.match_utrs["e1"] = [utr |-> "11.2", date |-> Stamp(2025, 3, 15, 18)]

----------------------------------------------------------------------------
(* C28 *)

\* C28: for the same player, match and file contents, utr_score.get_match_utr
\* returns what utr_service.get_match_utr returns, whatever the files hold.
C28_LocatorsAgree ==
    op = "utr_score.get_match_utr"
        => ret = GetMatchUtr(args.player_id, args.resultDate, args.match_type)

----------------------------------------------------------------------------
(* C29 *)

WinnerIds(result) ==
    IF result.teamType = "DOUBLES"
    THEN {result.players.winner1, result.players.winner2} \ {Null, Absent}
    ELSE {result.players.winner1} \ {Null, Absent}

LoserIds(result) ==
    IF result.teamType = "DOUBLES"
    THEN {result.players.loser1, result.players.loser2} \ {Null, Absent}
    ELSE {result.players.loser1} \ {Null, Absent}

\* the result has players, winner, loser and id
Complete(result) ==
    result.hasPlayers /\ result.hasWinner /\ result.hasLoser /\ result.id # None

\* the result is to be passed over for the player
PassedOver(player_id, result) ==
    ~Complete(result) \/ player_id \notin WinnerIds(result) \cup LoserIds(result)

\* the result is to be recorded for the player and nothing in it is null
\* where a structure is read
Recordable(player_id, result) ==
    /\ ~PassedOver(player_id, result)
    /\ result.score.kind # Null
    /\ \A j \in DOMAIN result.score.sets : result.score.sets[j] # <<>>
    /\ result.teamType = "DOUBLES"
           => Null \notin {result.players.winner1, result.players.winner2,
                           result.players.loser1, result.players.loser2}

\* C29: a row is inserted only for a complete result with the player among its
\* winner ids (then 'Win') or its loser ids (then 'Loss'), with format 'Doubles'
\* exactly when the draw's teamType is DOUBLES; and in a file whose results are
\* each either to be passed over (a field missing, or the player on neither
\* side) or recordable, every recordable result leaves a row of its id: the
\* passed-over results do not stop the ingestion.
C29_Classification ==
    [][Ingests =>
          LET results == args'.file.results
              player_id == args'.player_id
          IN  /\ \A r \in DOMAIN matches' :
                     r \notin DOMAIN matches =>
                         \E k \in DOMAIN results :
                             /\ results[k].id = matches'[r].match_id
                             /\ Complete(results[k])
                             /\ matches'[r].match_format = "Doubles"
                                    <=> results[k].teamType = "DOUBLES"
                             /\ \/ /\ matches'[r].result = "Win"
                                   /\ player_id \in WinnerIds(results[k])
                                \/ /\ matches'[r].result = "Loss"
                                   /\ player_id \in LoserIds(results[k])
              /\ (\A k \in DOMAIN results :
                      PassedOver(player_id, results[k]) \/ Recordable(player_id, results[k]))
                     => \A k \in DOMAIN results :
                            Recordable(player_id, results[k]) =>
                                \E r \in DOMAIN matches' :
                                    matches'[r].match_id = results[k].id]_vars

----------------------------------------------------------------------------
(* C30 *)

\* the ingestion that has just returned
Ingested == op = "load_player_match_stats" /\ args.file.kind = "json"

\* C30: table matches never holds two rows of one match_id; no step changes or
\* removes a stored row, whoever's file is ingested next; and once a file has
\* been ingested for a player, ingesting it again for that player can leave
\* the table only as it is.
C30_FirstWriterWins ==
    /\ [](\A j, k \in DOMAIN matches :
              matches[j].match_id = matches[k].match_id => j = k)
    /\ [][\A k \in DOMAIN matches : k \in DOMAIN matches' /\ matches'[k] = matches[k]]_vars
    /\ [](Ingested =>
              LoadPlayerMatchStats(args.player_id, args.file, matches) = {matches})

\* a player's file holding a match the table already has from the opponent's
\* side has just been ingested
C30_Witness ==
    /\ Ingested
    /\ \E k \in DOMAIN args.file.results, r \in DOMAIN matches :
           /\ Recordable(args.player_id, args.file.results[k])
           /\ \A j \in 1..(k - 1) : Recordable(args.player_id, args.file.results[j])
           /\ matches[r].match_id = args.file.results[k].id
           /\ matches[r].player1_id # args.player_id

====
